---- MODULE Spec2Model ----
(***************************************************************************)
(* Model of the wordsynk_automata booking crawler: the progress tracker    *)
(* (state/manager.py), the booking repository (db/repository.py), the      *)
(* three processors (processors/*.py) and the run loop                     *)
(* (services/crawler_service.py).                                          *)
(*                                                                         *)
(* Identifiers are small integers.  0 stands for SQL NULL / Python None,   *)
(* -1 for the Ellipsis default ("no change") of update_state.  Text        *)
(* columns are strings, with "None" for NULL.  Time is a logical clock     *)
(* that advances at every process start.                                   *)
(***************************************************************************)
EXTENDS Integers, Sequences, FiniteSets, TLC

\* ------------------------------------------------------------------ bounds
NumBookings == 3      \* day identifiers (MJA) the application can show
MaxStarts == 2        \* process starts (first start and restarts)
MaxCards == 1         \* cards visible on one list screen
MaxCalls == 3         \* tracker calls in SpecTracker
MaxIters == 6         \* iterations of the run loop in Spec
MaxFields == 4        \* comma-separated fields of a card descriptor
MaxBlocks == 2        \* day-payment blocks of a detail stream

\* --------------------------------------------------------------- constants
NoId == 0
Ellipsis == -1
NoTime == 0
NoMsg == "None"
\* A NULL appointment_count_hint, as update_booking_secondary_ids reads it
\* (ifnull(appointment_count_hint, -1))
NoHint == -1
NoMoney == -1         \* parse_money's None

Bookings == 1..NumBookings

\* state/models.py: ScrapeState
ScrapeStates ==
    {"INITIALIZING", "NAVIGATING_TO_LIST", "LIST", "SECONDARY", "DETAIL",
     "ERROR", "FINISHED", "IDLE"}

\* load_or_create_session: the states a session is resumed in
ResumableStates == {"SECONDARY", "DETAIL", "LIST"}

VARIABLES
    sessions,   \* table bookings_scrape: sequence of rows, session_id = index
    bookings,   \* table bookings: booking_id -> row
    multiday_headers,  \* table multiday_headers: the mjr_id of its rows
    sm,         \* the StateManager object of the running process
    lp,         \* the ListProcessor object of the running process
    run,        \* CrawlerService.run: process status and loop locals
    now,        \* logical clock (number of process starts so far)
    steps,      \* history: tracker calls / loop iterations made so far
    hist        \* history: what the last step did

vars == <<sessions, bookings, multiday_headers, sm, lp, run, now, steps, hist>>

\* ------------------------------------------------------- tracker (manager)
\* StateManager.__init__
InitSM ==
    [session_id |-> NoId, start_time |-> NoTime,
     current_state |-> "INITIALIZING", previous_state |-> "None",
     current_booking_id |-> NoId, current_mjr_id |-> NoId,
     last_processed_booking_id |-> NoId,
     total_bookings_scraped_session |-> 0, total_errors_session |-> 0,
     current_scrape_attempt |-> 0]

\* A world is the tracker object, its table and the log of the state changes
\* made by the calls of the current step (history only).
World(m, s, l) == [sm |-> m, sessions |-> s, log |-> l]

GetCurrentErrorMessageNone(m, s) == NoMsg

\* StateManager.get_current_error_message
GetCurrentErrorMessage(m, s) ==
    IF m.session_id = NoId THEN NoMsg
    ELSE IF m.session_id \notin DOMAIN s THEN NoMsg
    ELSE IF s[m.session_id].error_message \in {NoMsg, ""} THEN NoMsg
    ELSE s[m.session_id].error_message

UpdateStateNoErrorCount(w, new_state, bid, mjr, lpid, msg) ==
    LET m0 == w.sm
        m1 == [m0 EXCEPT
                 !.previous_state = m0.current_state,
                 !.current_state = new_state,
                 !.current_booking_id = IF bid # Ellipsis THEN bid ELSE @,
                 !.current_mjr_id = IF mjr # Ellipsis THEN mjr ELSE @,
                 !.last_processed_booking_id =
                     IF lpid # Ellipsis THEN lpid ELSE @]
        m2 == IF new_state = "DETAIL" /\ m1.previous_state = "SECONDARY"
              THEN [m1 EXCEPT !.current_scrape_attempt = 0]
              ELSE m1
        s2 == IF m2.session_id # NoId
              THEN [w.sessions EXCEPT ![m2.session_id] =
                      [@ EXCEPT
                         !.last_state = m2.current_state,
                         !.current_booking_id = m2.current_booking_id,
                         !.current_mjr_id = m2.current_mjr_id,
                         !.last_processed_booking_id =
                             m2.last_processed_booking_id,
                         !.error_message =
                             IF new_state = "ERROR" THEN msg
                             ELSE GetCurrentErrorMessage(m2, w.sessions),
                         !.total_errors = m2.total_errors_session,
                         !.status = IF new_state = "ERROR" THEN "error"
                                    ELSE "running"]]
              ELSE w.sessions
    IN World(m2, s2, Append(w.log, <<m0.current_state, new_state, "update_state",
                                 m2.current_booking_id, m2.current_mjr_id>>))

\* StateManager.update_state
UpdateState(w, new_state, bid, mjr, lpid, msg) ==
    LET m0 == w.sm
        m1 == [m0 EXCEPT
                 !.previous_state = m0.current_state,
                 !.current_state = new_state,
                 !.current_booking_id = IF bid # Ellipsis THEN bid ELSE @,
                 !.current_mjr_id = IF mjr # Ellipsis THEN mjr ELSE @,
                 !.last_processed_booking_id =
                     IF lpid # Ellipsis THEN lpid ELSE @]
        m2 == IF new_state = "ERROR"
              THEN [m1 EXCEPT !.total_errors_session = @ + 1]
              ELSE IF new_state = "DETAIL" /\ m1.previous_state = "SECONDARY"
              THEN [m1 EXCEPT !.current_scrape_attempt = 0]
              ELSE m1
        s2 == IF m2.session_id # NoId
              THEN [w.sessions EXCEPT ![m2.session_id] =
                      [@ EXCEPT
                         !.last_state = m2.current_state,
                         !.current_booking_id = m2.current_booking_id,
                         !.current_mjr_id = m2.current_mjr_id,
                         !.last_processed_booking_id =
                             m2.last_processed_booking_id,
                         !.error_message =
                             IF new_state = "ERROR" THEN msg
                             ELSE GetCurrentErrorMessage(m2, w.sessions),
                         !.total_errors = m2.total_errors_session,
                         !.status = IF new_state = "ERROR" THEN "error"
                                    ELSE "running"]]
              ELSE w.sessions
    IN World(m2, s2, Append(w.log, <<m0.current_state, new_state, "update_state",
                                 m2.current_booking_id, m2.current_mjr_id>>))

\* StateManager.record_booking_scraped
RecordBookingScraped(w) ==
    LET m1 == [w.sm EXCEPT !.total_bookings_scraped_session = @ + 1]
        s1 == IF m1.session_id # NoId
              THEN [w.sessions EXCEPT ![m1.session_id].total_bookings_scraped =
                      m1.total_bookings_scraped_session]
              ELSE w.sessions
    IN World(m1, s1, w.log)

\* StateManager.finish_session
FinishSession(w, status, final_error_message, t) ==
    LET m0 == w.sm
        m1 == [m0 EXCEPT !.current_state =
                 IF status = "completed" THEN "FINISHED" ELSE "ERROR"]
        final_status == IF m1.current_state = "ERROR" THEN "error" ELSE status
        err == IF final_error_message \notin {NoMsg, ""}
               THEN final_error_message
               ELSE GetCurrentErrorMessage(m1, w.sessions)
        s1 == IF m1.session_id # NoId
              THEN [w.sessions EXCEPT ![m1.session_id] =
                      [@ EXCEPT !.end_time = t,
                                !.status = final_status,
                                !.last_state = m1.current_state,
                                !.error_message = err]]
              ELSE w.sessions
    IN World(m1, s1, Append(w.log, <<m0.current_state, m1.current_state, "finish_session">>))

\* load_or_create_session, the SELECT: rows that are 'running' or 'error',
\* ordered by (running first, then error), then start_time descending.
LiveSessions(s) == {i \in DOMAIN s : s[i].status \in {"running", "error"}}

StatusRank(st) == IF st = "running" THEN 1 ELSE IF st = "error" THEN 2 ELSE 3

SelectSession(s) ==
    {i \in LiveSessions(s) :
        \A j \in LiveSessions(s) :
            \/ StatusRank(s[i].status) < StatusRank(s[j].status)
            \/ /\ StatusRank(s[i].status) = StatusRank(s[j].status)
               /\ s[i].start_time >= s[j].start_time}

ResumeStateKeepsAll(last_state) ==
    IF last_state \in ScrapeStates THEN last_state ELSE "NAVIGATING_TO_LIST"

\* load_or_create_session, lines 53-60: the state a resumed session starts in
ResumeState(last_state) ==
    IF last_state \in ResumableStates THEN last_state
    ELSE "NAVIGATING_TO_LIST"

\* load_or_create_session, lines 74-78
LoadScrapeAttempt(m, bk) ==
    IF m.current_booking_id # NoId /\ m.current_state \in {"DETAIL", "SECONDARY"}
    THEN IF m.current_booking_id \in DOMAIN bk /\ bk[m.current_booking_id].exists
         THEN bk[m.current_booking_id].scrape_attempt
         ELSE 0
    ELSE 0

\* A new bookings_scrape row (INSERT with the schema defaults)
NewSessionRow(t, state) ==
    [start_time |-> t, end_time |-> NoTime, status |-> "running",
     last_state |-> state, current_booking_id |-> NoId,
     current_mjr_id |-> NoId, last_processed_booking_id |-> NoId,
     total_bookings_scraped |-> 0, total_errors |-> 0,
     error_message |-> NoMsg]

LoadOrCreateSessionDropsIds(m, s, bk, i, t) ==
    LET m1 == IF i # NoId
              THEN [m EXCEPT
                      !.session_id = i,
                      !.start_time = s[i].start_time,
                      !.last_processed_booking_id =
                          s[i].last_processed_booking_id,
                      !.total_bookings_scraped_session =
                          s[i].total_bookings_scraped,
                      !.total_errors_session = s[i].total_errors,
                      !.current_state = ResumeState(s[i].last_state)]
              ELSE [m EXCEPT
                      !.session_id = Len(s) + 1,
                      !.start_time = t,
                      !.current_state = "NAVIGATING_TO_LIST"]
        s1 == IF i # NoId
              THEN [s EXCEPT ![i] = [@ EXCEPT !.status = "running",
                                              !.start_time = t]]
              ELSE Append(s, NewSessionRow(t, "NAVIGATING_TO_LIST"))
    IN World(m1, s1, <<>>)

\* StateManager.load_or_create_session on a fresh tracker; i is the row the
\* SELECT returned (NoId when it returned none).
LoadOrCreateSession(m, s, bk, i, t) ==
    LET m1 == IF i # NoId
              THEN [m EXCEPT
                      !.session_id = i,
                      !.start_time = s[i].start_time,
                      !.current_booking_id = s[i].current_booking_id,
                      !.current_mjr_id = s[i].current_mjr_id,
                      !.last_processed_booking_id =
                          s[i].last_processed_booking_id,
                      !.total_bookings_scraped_session =
                          s[i].total_bookings_scraped,
                      !.total_errors_session = s[i].total_errors,
                      !.current_state = ResumeState(s[i].last_state)]
              ELSE [m EXCEPT
                      !.session_id = Len(s) + 1,
                      !.start_time = t,
                      !.current_state = "NAVIGATING_TO_LIST",
                      !.total_bookings_scraped_session = 0,
                      !.total_errors_session = 0]
        s1 == IF i # NoId
              THEN [s EXCEPT ![i] = [@ EXCEPT !.status = "running",
                                              !.start_time = t]]
              ELSE Append(s, NewSessionRow(t, "NAVIGATING_TO_LIST"))
        m2 == [m1 EXCEPT !.current_scrape_attempt = LoadScrapeAttempt(m1, bk)]
    IN World(m2, s1, <<>>)

LoadChoicesAlwaysNew(s) == {NoId}

\* The rows the SELECT of load_or_create_session may return
LoadChoices(s) == IF LiveSessions(s) = {} THEN {NoId} ELSE SelectSession(s)

\* --------------------------------------------------------------- bookings
\* state/models.py: BookingCardStatus values parse_mja produces
CardStatuses == {"Normal", "Cancelled", "New Offer", "Viewed"}

\* A bookings row: the columns the crawl's decisions read.
NoRow ==
    [exists |-> FALSE, status |-> "None", mjr_id |-> NoId,
     creation_id |-> NoId, processing_id |-> NoId, client_name |-> NoId,
     appointment_count_hint |-> NoHint, type_hint |-> "None",
     scrape_attempt |-> 0]

\* insert_booking_base, lines 16-21: card status -> default processing status
DbStatus(card_status) ==
    IF card_status = "Cancelled" THEN "cancelled_on_list"
    ELSE IF card_status \in {"New Offer", "Viewed"} THEN "skipped_offer_viewed"
    ELSE "pending"

MergeStatusAlwaysCard(stored, excluded) == excluded

\* insert_booking_base, lines 60-64: the CASE of the upsert
MergeStatus(stored, excluded) ==
    IF stored = "scraped" /\ excluded = "cancelled_on_list" THEN excluded
    ELSE IF stored = "scraped" THEN stored
    ELSE excluded

\* insert_booking_base, lines 50-74: the rows the upsert writes (its
\* rowcount; each gets last_updated = CURRENT_TIMESTAMP).  The WHERE of its
\* DO UPDATE holds for every conflicting row.
InsertBookingBaseRows(bk, b, card_status) ==
    IF b = NoId THEN {} ELSE {b}

\* insert_booking_base, line 43: card_data.get('mjr_id'); the record parse_mja
\* builds has no such key
CardMjrId(card_status) == NoId

CoalesceExcluded(excluded, stored) == excluded

\* insert_booking_base, line 66: COALESCE(excluded.mjr_id, bookings.mjr_id)
Coalesce(excluded, stored) == IF excluded # NoId THEN excluded ELSE stored

\* insert_booking_base: the upsert.  Of the columns of a row modelled here it
\* writes status and mjr_id; postcode, times, duration, language_pair,
\* isRemote and card_status are not read by any decision of the crawl.
InsertBookingBase(bk, b, card_status) ==
    IF b = NoId THEN bk
    ELSE IF ~bk[b].exists
    THEN [bk EXCEPT ![b] = [NoRow EXCEPT !.exists = TRUE,
                                         !.status = DbStatus(card_status),
                                         !.mjr_id = CardMjrId(card_status)]]
    ELSE [bk EXCEPT ![b].status = MergeStatus(@, DbStatus(card_status)),
                    ![b].mjr_id = Coalesce(CardMjrId(card_status), @)]

\* update_booking_status
UpdateBookingStatus(bk, b, status) ==
    IF b = NoId THEN bk
    ELSE IF bk[b].exists /\ bk[b].status # status
    THEN [bk EXCEPT ![b].status = status]
    ELSE bk

\* update_booking_status: the rows its UPDATE writes
UpdateBookingStatusRows(bk, b, status) ==
    IF b # NoId /\ bk[b].exists /\ bk[b].status # status THEN {b} ELSE {}

\* update_booking_secondary_ids, lines 108-115: the WHERE of its UPDATE
SecondaryIdsDiffer(row, creation_id, processing_id, count, type_hint) ==
    \/ row.creation_id # creation_id
    \/ row.processing_id # processing_id
    \/ row.mjr_id # processing_id
    \/ row.appointment_count_hint # count
    \/ row.type_hint # type_hint

\* An update_booking_secondary_ids that writes whatever the row holds
UpdateBookingSecondaryIdsAlways(bk, b, creation_id, processing_id, count, type_hint) ==
    IF b = NoId THEN bk
    ELSE [bk EXCEPT ![b].exists = TRUE,
                    ![b].creation_id = creation_id,
                    ![b].processing_id = processing_id,
                    ![b].mjr_id = processing_id,
                    ![b].appointment_count_hint = count,
                    ![b].type_hint = type_hint]

\* update_booking_secondary_ids
UpdateBookingSecondaryIds(bk, b, creation_id, processing_id, count, type_hint) ==
    IF b = NoId THEN bk
    ELSE IF ~bk[b].exists THEN bk
    ELSE IF SecondaryIdsDiffer(bk[b], creation_id, processing_id, count,
                               type_hint)
    THEN [bk EXCEPT ![b].creation_id = creation_id,
                    ![b].processing_id = processing_id,
                    ![b].mjr_id = processing_id,
                    ![b].appointment_count_hint = count,
                    ![b].type_hint = type_hint]
    ELSE bk

\* update_booking_secondary_ids: the rows its UPDATE writes
UpdateBookingSecondaryIdsRows(bk, b, creation_id, processing_id, count, type_hint) ==
    IF /\ b # NoId
       /\ bk[b].exists
       /\ SecondaryIdsDiffer(bk[b], creation_id, processing_id, count,
                             type_hint)
    THEN {b} ELSE {}

\* save_booking_details: every column but booking_id is overwritten from the
\* parse; parse_detail_data yields no creation_id, no appointment_count_hint
\* and no type_hint.
SaveBookingDetails(bk, mja_id, mjr, processing_id, client_name, status, attempt_count) ==
    IF mja_id = NoId THEN bk
    ELSE [bk EXCEPT ![mja_id] =
            [exists |-> TRUE, status |-> status, mjr_id |-> mjr,
             creation_id |-> NoId, processing_id |-> processing_id,
             client_name |-> client_name,
             appointment_count_hint |-> NoHint, type_hint |-> "None",
             scrape_attempt |-> attempt_count]]

\* save_booking_details: the rows its upsert writes
SaveBookingDetailsRows(bk, mja_id) ==
    IF mja_id = NoId THEN {} ELSE {mja_id}

\* A bulk update that does not look at the group of a row
UpdateAllMjaStatusesAnyMjr(bk, g, status) ==
    IF g = NoId THEN bk
    ELSE [b \in DOMAIN bk |->
            IF bk[b].exists THEN [bk[b] EXCEPT !.status = status] ELSE bk[b]]

\* update_all_mja_statuses_for_mjr
UpdateAllMjaStatusesForMjr(bk, g, status) ==
    IF g = NoId THEN bk
    ELSE [b \in DOMAIN bk |->
            IF bk[b].exists /\ bk[b].mjr_id = g /\ bk[b].status # status
            THEN [bk[b] EXCEPT !.status = status]
            ELSE bk[b]]

\* update_all_mja_statuses_for_mjr: the rows its UPDATE writes
UpdateAllMjaStatusesForMjrRows(bk, g, status) ==
    IF g = NoId THEN {}
    ELSE {b \in DOMAIN bk :
            bk[b].exists /\ bk[b].mjr_id = g /\ bk[b].status # status}

\* get_mjr_id_for_mja
GetMjrIdForMja(bk, b) ==
    IF b = NoId THEN NoId
    ELSE IF bk[b].exists THEN bk[b].mjr_id ELSE NoId

RowsOfMjr(bk, g) == {b \in DOMAIN bk : bk[b].exists /\ bk[b].mjr_id = g}

\* A check that asks for one scraped row of the group, whatever the hint
CheckIfAnyMjaScraped(bk, g) ==
    /\ g # NoId
    /\ \E b \in RowsOfMjr(bk, g) : bk[b].status = "scraped"

\* check_if_all_mjas_for_mjr_scraped.  The row that LIMIT 1 yields is any of
\* the group's rows with a hint.
CheckIfAllMjasForMjrScraped(bk, g) ==
    IF g = NoId THEN FALSE
    ELSE LET hinted == {b \in RowsOfMjr(bk, g) :
                           bk[b].appointment_count_hint # NoHint}
         IN IF hinted = {} THEN FALSE
            ELSE LET expected ==
                       bk[CHOOSE b \in hinted : TRUE].appointment_count_hint
                     scraped == {b \in RowsOfMjr(bk, g) :
                                   bk[b].status = "scraped"}
                 IN IF expected <= 0 THEN FALSE
                    ELSE Cardinality(scraped) >= expected

\* get_secondary_hints_for_mjr: <<appointment_count_hint, type_hint>> of the
\* first row (lowest booking_id; appointment_sequence is not modelled) that
\* has both
GetSecondaryHintsForMjr(bk, g) ==
    LET both == {b \in RowsOfMjr(bk, g) :
                    /\ bk[b].appointment_count_hint # NoHint
                    /\ bk[b].type_hint # "None"}
    IN IF g = NoId \/ both = {} THEN <<NoHint, "None">>
       ELSE LET f == CHOOSE b \in both : \A c \in both : b <= c
            IN <<bk[f].appointment_count_hint, bk[f].type_hint>>

\* update_hints_for_mjr
UpdateHintsForMjr(bk, g, count, type_hint) ==
    IF g = NoId THEN bk
    ELSE IF count = NoHint /\ type_hint = "None" THEN bk
    ELSE [b \in DOMAIN bk |->
            IF bk[b].exists /\ bk[b].mjr_id = g
            THEN [bk[b] EXCEPT
                    !.appointment_count_hint =
                        IF count # NoHint THEN count ELSE @,
                    !.type_hint = IF type_hint # "None" THEN type_hint ELSE @]
            ELSE bk[b]]

\* ------------------------------------------------------------------- init
InitLP ==
    [processed_ids_this_cycle |-> {}, session_clicked_mja_ids |-> {},
     session_fully_processed_mjr_ids |-> {}, scroll_attempts |-> 0]

InitRun ==
    [up |-> FALSE, consecutive_error_count |-> 0,
     is_processing_fresh_list_view |-> TRUE]

\* History record: the operation of the last step, the message it passed, the
\* tracker state changes it made (log), the booking it was about (bid), the
\* card status observed, the bookings whose detail rows it saved, the bookings
\* it stored as cancelled, whether the list was exhausted, the session of the
\* process, whether the process resumed a session, the state and
\* identifiers persisted by the last update_state call (us), the bookings
\* whose detail save failed in the store (failed_save), the number of
\* driver.back() calls of a detail step or of a list step that did not find
\* the list (backs), whether its last look for the list page found it
\* (listed), whether the step before was a detail step that set LIST without
\* having confirmed the list page (unconfirmed), the group identifier a
\* secondary step parsed or a repository query was called with (mjr), the
\* value a repository query returned (ret), the arguments of a repository
\* call after its booking, the identifier arguments of an update_state call
\* or the cards a list step evaluated (args), the bookings rows a repository
\* call wrote (written), the bookings whose cards the run has clicked
\* (clicks) and the groups whose detail screen the run has saved
\* (saved_groups).  A log entry of an update_state call is <<state before,
\* state after, "update_state", current_booking_id, current_mjr_id>> with
\* the identifiers as the call left them.
NoHist ==
    [op |-> "none", msg |-> NoMsg, log |-> <<>>, bid |-> NoId,
     card |-> "None", saved |-> {}, cancelled |-> {}, exhausted |-> FALSE,
     sid |-> NoId, resumed |-> FALSE, us |-> <<"None", NoId, NoId>>,
     failed_save |-> {}, backs |-> 0, listed |-> TRUE, unconfirmed |-> FALSE,
     mjr |-> NoId, ret |-> FALSE, args |-> <<>>, written |-> {},
     clicks |-> {}, saved_groups |-> {}]

\* The state and identifiers persisted by the last update_state call
LastUpdate(log, m, us) ==
    LET calls == {i \in DOMAIN log : log[i][3] = "update_state"}
    IN IF calls = {} THEN us
       ELSE LET k == CHOOSE i \in calls : \A j \in calls : j <= i
            IN <<log[k][2], m.current_booking_id, m.current_mjr_id>>

Init ==
    /\ sessions = <<>>
    /\ bookings = [b \in Bookings |-> NoRow]
    /\ multiday_headers = {}
    /\ sm = InitSM
    /\ lp = InitLP
    /\ run = InitRun
    /\ now = 0
    /\ steps = 0
    /\ hist = NoHist

\* ------------------------------------------- SpecTracker: the tracker API
\* The tracker driven by any sequence of its public calls, process stops and
\* restarts.  The states, identifier arguments and messages are those of the
\* call sites in the processors and the run loop.
TrackerStates == {"NAVIGATING_TO_LIST", "LIST", "SECONDARY", "DETAIL", "ERROR"}
\* <<current_booking_id, current_mjr_id, last_processed_booking_id>>
TrackerArgs ==
    {<<Ellipsis, Ellipsis, Ellipsis>>,   \* crawler_service.py:157
     <<1, Ellipsis, 1>>,                 \* list_processor.py:254
     <<1, 1, Ellipsis>>,                 \* secondary_processor.py:139
     <<NoId, NoId, Ellipsis>>}           \* detail_processor.py:76
TrackerMsgs == {NoMsg, "m1"}
FinishStatuses == {"completed", "completed_max_scrolls"}

\* CrawlerService.__init__: a process starts, builds its tracker and
\* processors and loads or creates the session.
Start ==
    /\ ~run.up
    /\ now < MaxStarts
    /\ \E i \in LoadChoices(sessions) :
         LET w == LoadOrCreateSession(InitSM, sessions, bookings, i, now + 1)
         IN /\ sm' = w.sm
            /\ sessions' = w.sessions
            /\ hist' = [NoHist EXCEPT !.op = "load", !.sid = w.sm.session_id,
                                      !.resumed = (i # NoId), !.us = hist.us]
    /\ now' = now + 1
    /\ lp' = InitLP
    /\ run' = [InitRun EXCEPT !.up = TRUE]
    /\ UNCHANGED <<multiday_headers, bookings, steps>>

TUpdateState ==
    /\ run.up
    /\ steps < MaxCalls
    /\ \E st \in TrackerStates, ids \in TrackerArgs, msg \in TrackerMsgs :
         LET w == UpdateState(World(sm, sessions, <<>>), st,
                              ids[1], ids[2], ids[3], msg)
         IN /\ sm' = w.sm
            /\ sessions' = w.sessions
            /\ hist' = [NoHist EXCEPT
                          !.op = "update_state", !.msg = msg, !.log = w.log,
                          !.args = ids,
                          !.sid = sm.session_id, !.resumed = hist.resumed,
                          !.us = LastUpdate(w.log, w.sm, hist.us)]
    /\ steps' = steps + 1
    /\ UNCHANGED <<multiday_headers, bookings, lp, run, now>>

TFinishSession ==
    /\ run.up
    /\ steps < MaxCalls
    /\ \E status \in FinishStatuses :
         LET w == FinishSession(World(sm, sessions, <<>>), status, NoMsg, now)
         IN /\ sm' = w.sm
            /\ sessions' = w.sessions
            /\ hist' = [NoHist EXCEPT
                          !.op = "finish_session", !.log = w.log,
                          !.sid = sm.session_id, !.resumed = hist.resumed,
                          !.us = hist.us]
    /\ steps' = steps + 1
    /\ UNCHANGED <<multiday_headers, bookings, lp, run, now>>

TRecordBookingScraped ==
    /\ run.up
    /\ steps < MaxCalls
    /\ LET w == RecordBookingScraped(World(sm, sessions, <<>>))
       IN /\ sm' = w.sm
          /\ sessions' = w.sessions
          /\ hist' = [NoHist EXCEPT
                        !.op = "record_booking_scraped",
                        !.sid = sm.session_id, !.resumed = hist.resumed,
                        !.us = hist.us]
    /\ steps' = steps + 1
    /\ UNCHANGED <<multiday_headers, bookings, lp, run, now>>

\* The process is killed: its objects are gone, the tables stay.
Crash ==
    /\ run.up
    /\ sm' = InitSM
    /\ lp' = InitLP
    /\ run' = InitRun
    /\ hist' = [NoHist EXCEPT !.op = "stop", !.sid = sm.session_id,
                              !.us = hist.us]
    /\ UNCHANGED <<multiday_headers, sessions, bookings, now, steps>>

NextTracker ==
    \/ Start
    \/ TUpdateState
    \/ TFinishSession
    \/ TRecordBookingScraped
    \/ Crash

SpecTracker == Init /\ [][NextTracker]_vars

\* ------------------------------------------------------- the application
\* What the application shows.  Booking 1 is a single-day booking of group 1;
\* bookings 2 and 3 are the days of group 2, bookings 4 and 5 of group 3, ...
GroupOf(b) == (b \div 2) + 1
Groups == {GroupOf(b) : b \in Bookings}
Days(g) == {b \in Bookings : GroupOf(b) = g}

\* A list screen: at most MaxCards cards <<booking, card status>> of
\* distinct bookings, in screen order (ListPage.get_cards)
Screens ==
    {c \in UNION {[1..n -> Bookings \X CardStatuses] : n \in 0..MaxCards} :
        \A i, j \in DOMAIN c : i # j => c[i][1] # c[j][1]}

\* ---------------------------------------------------------- ListProcessor
max_scroll_attempts == 3
\* ListProcessor._ensure_on_list_page: retries = 3
ensure_retries == 3

\* A list processor that does not look at the clicked cards of the session
InClickedNever(b, clicked) == FALSE

\* ListProcessor.process, line 174: the card was clicked or handled in this
\* session
InClicked(b, clicked) == b \in clicked

\* ListProcessor.process, lines 163-232: the loop over the cards on screen.
\* acc.cand are the cards appended to the click candidates; acc.cancelled
\* (history) the bookings stored from a Cancelled card.
RECURSIVE ScanCards(_, _, _)
ScanCards(cards, i, acc) ==
    IF i > Len(cards) THEN acc
    ELSE
      LET b == cards[i][1]
          cs == cards[i][2]
          inClicked == InClicked(b, acc.clicked)
          g == GetMjrIdForMja(acc.bk, b)
          byFully == ~inClicked /\ g # NoId /\ g \in acc.fully
          byDb == /\ ~inClicked /\ ~byFully /\ g # NoId
                  /\ CheckIfAllMjasForMjrScraped(acc.bk, g)
          skipped == [acc EXCEPT
                        !.bk = IF byFully
                               THEN UpdateBookingStatus(@, b, "scraped")
                               ELSE @,
                        !.fully = IF byDb THEN @ \cup {g} ELSE @,
                        !.processed = @ \cup {b}]
          seen == [acc EXCEPT !.any_new = TRUE, !.processed = @ \cup {b}]
          handled ==
            IF cs = "Cancelled"
            THEN [seen EXCEPT !.bk = InsertBookingBase(@, b, cs),
                              !.clicked = @ \cup {b},
                              !.cancelled = @ \cup {b}]
            ELSE IF cs \in {"New Offer", "Viewed"}
            THEN [seen EXCEPT
                    !.bk = UpdateBookingStatus(InsertBookingBase(@, b, cs),
                                               b, "skipped_offer_viewed"),
                    !.clicked = @ \cup {b}]
            ELSE IF cs = "Normal"
            THEN [seen EXCEPT !.cand = @ \cup {b}]
            ELSE seen
      IN ScanCards(cards, i + 1,
                   IF inClicked \/ byFully \/ byDb THEN skipped ELSE handled)

\* ListProcessor.process, lines 137-139: reset on a fresh list view
EnterList(l, is_initial_entry) ==
    IF is_initial_entry
    THEN [l EXCEPT !.processed_ids_this_cycle = {}, !.scroll_attempts = 0]
    ELSE l

ScanScreen(bk, l, cards) ==
    ScanCards(cards, 1,
              [bk |-> bk, processed |-> l.processed_ids_this_cycle,
               clicked |-> l.session_clicked_mja_ids,
               fully |-> l.session_fully_processed_mjr_ids,
               any_new |-> FALSE, cand |-> {}, cancelled |-> {}])

\* The result of one processor call: tracker world, bookings table, list
\* processor object, and history (clicked card, saved rows, the cards the
\* list processor evaluated, ...).
Result(w, bk, l) ==
    [w |-> w, bk |-> bk, lp |-> l, bid |-> NoId, saved |-> {},
     cancelled |-> {}, exhausted |-> FALSE, msg |-> NoMsg,
     failed_save |-> {}, backs |-> 0, listed |-> TRUE, mjr |-> NoId,
     cards |-> <<>>]

\* A failure that leaves the tracker state as it is
FailStaysPut(w, bk, l, bid, mjr, msg) ==
    [Result(w, bk, l) EXCEPT !.msg = msg]

Fail(w, bk, l, bid, mjr, msg) ==
    [Result(UpdateState(w, "ERROR", bid, mjr, Ellipsis, msg), bk, l)
        EXCEPT !.msg = msg]

\* ListProcessor.process.  e is what the screen and the driver do: on_list
\* (_ensure_on_list_page), raise (an exception in get_cards/get_window_size),
\* cards, sel (the visible candidate closest to the centre, NoId when none is
\* fully visible), click ("ok", "stale", "error"), scroll ("ok", "error").
ListProcess(w, bk, l0, is_initial_entry, e, t) ==
    LET l1 == EnterList(l0, is_initial_entry) IN
    IF ~e.on_list
    THEN [Fail(w, bk, l1, Ellipsis, Ellipsis, "Failed to ensure on list page")
            EXCEPT !.listed = FALSE,
                   !.backs = IF is_initial_entry THEN ensure_retries ELSE 0]
    ELSE IF e.raise
    THEN Fail(w, bk, l1, Ellipsis, Ellipsis, "ListProcessor unhandled error")
    ELSE IF e.cards = <<>> /\ l1.scroll_attempts = 0 /\ is_initial_entry
    THEN Fail(w, bk, l1, Ellipsis, Ellipsis, "No cards on list page initially")
    ELSE
      LET scan == ScanScreen(bk, l1, e.cards)
          l2 == [processed_ids_this_cycle |-> scan.processed,
                 session_clicked_mja_ids |-> scan.clicked,
                 session_fully_processed_mjr_ids |-> scan.fully,
                 scroll_attempts |-> IF scan.any_new THEN 0
                                     ELSE l1.scroll_attempts]
      IN
      IF e.sel # NoId
      THEN
        LET bk3 == InsertBookingBase(scan.bk, e.sel, "Normal")
            l3 == [l2 EXCEPT !.session_clicked_mja_ids = @ \cup {e.sel}]
            w3 == UpdateState(w, "SECONDARY", e.sel, Ellipsis, e.sel, NoMsg)
            r3 == [Result(w3, bk3, l3) EXCEPT !.bid = e.sel,
                                              !.cancelled = scan.cancelled,
                                              !.cards = e.cards]
        IN
        IF e.click = "ok" THEN r3
        ELSE IF e.click = "stale"
        THEN [r3 EXCEPT
                !.lp = [l3 EXCEPT
                          !.processed_ids_this_cycle = @ \ {e.sel},
                          !.session_clicked_mja_ids = @ \ {e.sel}],
                !.w = UpdateState(w3, "LIST", NoId, Ellipsis, Ellipsis, NoMsg)]
        ELSE [r3 EXCEPT
                !.bk = UpdateBookingStatus(bk3, e.sel, "error_list"),
                !.w = UpdateState(w3, "ERROR", Ellipsis, Ellipsis, Ellipsis,
                                  "Click error"),
                !.msg = "Click error"]
      ELSE
        LET old_view == ~scan.any_new /\ e.cards # <<>>
            sa1 == IF old_view THEN l2.scroll_attempts + 1
                   ELSE l2.scroll_attempts
            r1 == [Result(w, scan.bk, [l2 EXCEPT !.scroll_attempts = sa1])
                      EXCEPT !.cancelled = scan.cancelled,
                             !.cards = e.cards]
        IN
        IF sa1 >= max_scroll_attempts
        THEN [r1 EXCEPT
                !.w = FinishSession(w, "completed_max_scrolls", NoMsg, t),
                !.exhausted = TRUE]
        ELSE
          LET sa2 == IF old_view THEN sa1 ELSE sa1 + 1
              r2 == [r1 EXCEPT !.lp.scroll_attempts = sa2]
          IN
          IF e.scroll = "ok"
          THEN [r2 EXCEPT !.w = UpdateState(w, "LIST", NoId, Ellipsis,
                                            Ellipsis, NoMsg)]
          ELSE [r2 EXCEPT !.w = UpdateState(w, "ERROR", Ellipsis, Ellipsis,
                                            Ellipsis, "Scroll error"),
                          !.msg = "Scroll error"]

\* What the list screen and the driver can do in one ListProcessor.process
ListEnv(bk, l0, is_initial_entry) ==
    LET l1 == EnterList(l0, is_initial_entry)
        blank == [on_list |-> TRUE, raise |-> FALSE, cards |-> <<>>,
                  sel |-> NoId, click |-> "ok", scroll |-> "ok"]
    IN {[blank EXCEPT !.on_list = FALSE], [blank EXCEPT !.raise = TRUE]}
       \cup UNION {
            {[blank EXCEPT !.cards = c, !.sel = x, !.click = k]
                : x \in ScanScreen(bk, l1, c).cand,
                  k \in {"ok", "stale", "error"}}
            \cup {[blank EXCEPT !.cards = c, !.scroll = k]
                : k \in {"ok", "error"}}
            : c \in Screens}

\* ------------------------------------------------------ SecondaryProcessor
\* The secondary processor without its check of mjr_id_raw
SecondaryProcessAnyMjr(w, bk, l, e) ==
    LET current_mja == w.sm.current_booking_id IN
    IF e.out = "not_on_page"
    THEN Fail(w, bk, l, current_mja, Ellipsis,
              "Failed to ensure on secondary page")
    ELSE IF e.out = "empty_source"
    THEN Fail(w, bk, l, current_mja, Ellipsis, "Empty page source")
    ELSE IF e.out = "raise"
    THEN Fail(w, bk, l, current_mja, Ellipsis, "Secondary processor error")
    ELSE
      LET bk1 == IF current_mja # NoId
                 THEN UpdateBookingSecondaryIds(bk, current_mja, e.mjb,
                                                e.mjr, e.count, e.type_hint)
                 ELSE bk
      IN IF e.click
         THEN [Result(UpdateState(w, "DETAIL", current_mja, e.mjr, Ellipsis,
                                  NoMsg), bk1, l)
                 EXCEPT !.mjr = e.mjr]
         ELSE [Fail(w, bk1, l, current_mja, Ellipsis,
                    "Failed to click MJR link")
                 EXCEPT !.mjr = e.mjr]

\* SecondaryProcessor.process.  e: out ("not_on_page", "empty_source",
\* "raise", "ok"), mjb (mjb_id_raw), mjr (mjr_id_raw, NoId when the parser
\* found none), count
\* (appointment_count_hint), type_hint, click (click_mjr_link).
SecondaryProcess(w, bk, l, e) ==
    LET current_mja == w.sm.current_booking_id IN
    IF e.out = "not_on_page"
    THEN Fail(w, bk, l, current_mja, Ellipsis,
              "Failed to ensure on secondary page")
    ELSE IF e.out = "empty_source"
    THEN Fail(w, bk, l, current_mja, Ellipsis, "Empty page source")
    ELSE IF e.out = "raise"
    THEN Fail(w, bk, l, current_mja, Ellipsis, "Secondary processor error")
    ELSE IF e.mjr = NoId
    THEN Fail(w, bk, l, current_mja, Ellipsis, "MJR ID missing")
    ELSE
      LET bk1 == IF current_mja # NoId
                 THEN UpdateBookingSecondaryIds(bk, current_mja, e.mjb,
                                                e.mjr, e.count, e.type_hint)
                 ELSE bk
      IN IF e.click
         THEN [Result(UpdateState(w, "DETAIL", current_mja, e.mjr, Ellipsis,
                                  NoMsg), bk1, l)
                 EXCEPT !.mjr = e.mjr]
         ELSE [Fail(w, bk1, l, current_mja, Ellipsis,
                    "Failed to click MJR link")
                 EXCEPT !.mjr = e.mjr]

\* The secondary screen opened from the card of current_mja shows the group
\* of that booking; the appointment count is the number of its days, or the
\* parser's default 1 when the text is absent.
SecondaryEnv(current_mja) ==
    LET g == IF current_mja \in Bookings THEN GroupOf(current_mja) ELSE NoId
        blank == [out |-> "ok", mjb |-> NoId, mjr |-> NoId, count |-> 1,
                  type_hint |-> "None", click |-> TRUE]
    IN {[blank EXCEPT !.out = o]
           : o \in {"not_on_page", "empty_source", "raise"}}
       \cup {blank}
       \cup (IF g = NoId THEN {}
             ELSE {[blank EXCEPT !.mjb = c, !.mjr = g, !.count = n,
                                 !.type_hint = th, !.click = k]
                      : c \in {NoId, current_mja},
                        n \in {1, Cardinality(Days(g))},
                        th \in {"None", "Face To Face"},
                        k \in BOOLEAN})

\* --------------------------------------------------------- DetailProcessor
NavigateBackToListOnce(w, back) ==
    IF back # "raise"
    THEN UpdateState(w, "SECONDARY", Ellipsis, Ellipsis, Ellipsis, NoMsg)
    ELSE UpdateState(w, "ERROR", Ellipsis, Ellipsis, Ellipsis,
                     "Back navigation failed")

\* DetailProcessor._navigate_back_to_list: two back() calls, a third when the
\* list is not confirmed ("third": confirmed after it, "unconfirmed": still
\* not).  The state becomes LIST whether or not the list was confirmed; only
\* an exception of the first or second back() gives ERROR.
NavigateBackToList(w, back) ==
    IF back # "raise"
    THEN UpdateState(w, "LIST", NoId, NoId, Ellipsis, NoMsg)
    ELSE UpdateState(w, "ERROR", Ellipsis, Ellipsis, Ellipsis,
                     "Back navigation failed")

\* _navigate_back_to_list, lines 49, 54 and 66: the back() calls made
BackCalls(back) ==
    IF back = "ok" THEN 2 ELSE IF back = "raise" THEN 1 ELSE 3

\* The navigation part of a detail result
WithBack(r, back) ==
    [r EXCEPT !.backs = BackCalls(back),
              !.listed = back \in {"ok", "third"}]

\* The except clause without its update_booking_status
MarkDetailErrorSkips(bk, current_mja) == bk

\* DetailProcessor.process, lines 264-265 and 325-326
MarkDetailError(bk, current_mja) ==
    IF current_mja # NoId
    THEN UpdateBookingStatus(bk, current_mja, "error_detail_extract")
    ELSE bk

RECURSIVE SaveDays(_, _, _, _, _)
\* DetailProcessor.process, lines 268-296: one save per day block
SaveDays(bk, days, mjr, client_name, attempt) ==
    IF days = {} THEN bk
    ELSE LET d == CHOOSE x \in days : \A y \in days : x <= y
         IN SaveDays(SaveBookingDetails(bk, d, mjr, mjr, client_name,
                                        "scraped", attempt),
                     days \ {d}, mjr, client_name, attempt)

\* DetailProcessor.process, lines 153, 173, 257, 307: the text of the
\* exception the except clause reports
DetailErrorMsg(cause) == "Detail processing error: " \o cause

\* DetailProcessor.process.  e: page ("ok", "timeout", "error"), parse ("ok",
\* "no_source", "no_lang"), hdr (mjr_id_raw of the header), multiday (the
\* Multiday marker), client (client_name of the parse; a group's client is
\* named by the group), blocks (day identifiers of the payment blocks found),
\* write ("ok", "fails": the INSERT of save_booking_details raises
\* sqlite3.Error), back ("ok", "third", "unconfirmed", "raise").
DetailProcess(w, bk, l, e) ==
    LET current_mja == w.sm.current_booking_id
        current_mjr == w.sm.current_mjr_id
        mjr_id_final == IF current_mjr # NoId THEN current_mjr
                        ELSE IF e.hdr # NoId THEN e.hdr
                        ELSE current_mja
        attempt == w.sm.current_scrape_attempt
        failed(cause) ==
          LET bk1 == MarkDetailError(bk, current_mja)
              w1 == NavigateBackToList(w, e.back)
          IN WithBack(
               [Result(UpdateState(w1, "ERROR", current_mja, current_mjr,
                                   Ellipsis, DetailErrorMsg(cause)),
                       bk1, l)
                  EXCEPT !.msg = DetailErrorMsg(cause)], e.back)
        done(bk1, saved, failed_save) ==
          WithBack(
            [Result(NavigateBackToList(RecordBookingScraped(w), e.back),
                    bk1, l)
               EXCEPT !.bid = current_mja, !.saved = saved,
                      !.failed_save = failed_save], e.back)
    IN
    IF e.page = "timeout"
    THEN Result(UpdateState(w, "NAVIGATING_TO_LIST", NoId, NoId, Ellipsis,
                            "Detail page not found"), bk, l)
    ELSE IF e.page = "error"
    THEN Fail(w, bk, l, current_mja, current_mjr, "Detail page load error")
    ELSE IF e.parse = "no_source" THEN failed("no page source")
    ELSE IF e.parse = "no_lang" THEN failed("language anchor not found")
    ELSE IF mjr_id_final = NoId THEN failed("MJR ID unknown")
    ELSE IF e.multiday
    THEN
      IF e.blocks = {}
      THEN done(MarkDetailError(bk, current_mja), {}, {})
      ELSE
        LET bk1 == IF e.write = "ok"
                   THEN SaveDays(bk, e.blocks, mjr_id_final, e.client,
                                 attempt)
                   ELSE bk
            hints == GetSecondaryHintsForMjr(bk1, mjr_id_final)
            bk2 == UpdateHintsForMjr(bk1, mjr_id_final, hints[1], hints[2])
        IN IF e.write = "ok" THEN done(bk2, e.blocks, {})
           ELSE done(bk2, {}, e.blocks)
    ELSE
      LET mja_id_to_save ==
            IF e.blocks # {} THEN CHOOSE x \in e.blocks : TRUE
            ELSE current_mja
      IN IF mja_id_to_save = NoId THEN failed("MJA ID missing")
         ELSE IF e.write = "ok"
         THEN done(SaveBookingDetails(bk, mja_id_to_save, e.hdr,
                                      mjr_id_final, e.client, "scraped",
                                      attempt),
                   {mja_id_to_save}, {})
         ELSE done(bk, {}, {mja_id_to_save})

\* The detail screen opened from the link of group current_mjr shows that
\* group: its days as payment blocks (all, some or none found while
\* scrolling), the Multiday marker when it has several days.
DetailEnv(current_mjr) ==
    LET days == IF current_mjr \in Groups THEN Days(current_mjr) ELSE {}
        multi == Cardinality(days) > 1
        blank == [page |-> "ok", parse |-> "ok", hdr |-> NoId,
                  client |-> current_mjr, multiday |-> multi, blocks |-> {},
                  write |-> "ok", back |-> "ok"]
    IN {[blank EXCEPT !.page = p] : p \in {"timeout", "error"}}
       \cup {[blank EXCEPT !.parse = p, !.back = k]
               : p \in {"no_source", "no_lang"}, k \in {"ok", "raise"}}
       \cup {[blank EXCEPT !.hdr = h, !.blocks = bl, !.back = k]
               : h \in {NoId, current_mjr}, bl \in SUBSET days,
                 k \in {"ok", "third", "unconfirmed", "raise"}}
       \cup {[blank EXCEPT !.hdr = current_mjr, !.blocks = days,
                           !.write = "fails"]}

\* --------------------------------------------------- CrawlerService.run
max_consecutive_errors == 3

\* CrawlerService.run, lines 200-216: the error counter after a processor
\* call, and the halt when it reaches the maximum
AfterProcessor(r, count) ==
    LET c1 == IF r.w.sm.current_state = "ERROR" THEN count + 1 ELSE 0
    IN IF c1 >= max_consecutive_errors
       THEN [res |-> [r EXCEPT
                        !.w = UpdateState(r.w, "ERROR", Ellipsis, Ellipsis,
                                          Ellipsis,
                                          "Max consecutive errors reached"),
                        !.msg = "Max consecutive errors reached"],
             count |-> c1]
       ELSE [res |-> r, count |-> c1]

\* History: the multi-day groups whose detail screen this step has saved,
\* all their day rows being stored as 'scraped'
GroupsSaved(op, res) ==
    IF op # "detail" THEN {}
    ELSE {g \in Groups :
            /\ Cardinality(Days(g)) > 1
            /\ res.saved \cap Days(g) # {}
            /\ \A d \in Days(g) : /\ res.bk[d].status = "scraped"
                                  /\ res.bk[d].mjr_id = g}

\* One iteration of the loop has run: commit its result
Commit(op, out, fresh) ==
    /\ sm' = out.res.w.sm
    /\ sessions' = out.res.w.sessions
    /\ bookings' = out.res.bk
    /\ lp' = out.res.lp
    /\ run' = [run EXCEPT !.consecutive_error_count = out.count,
                          !.is_processing_fresh_list_view = fresh]
    /\ hist' = [NoHist EXCEPT
                  !.op = op, !.msg = out.res.msg, !.log = out.res.w.log,
                  !.bid = out.res.bid, !.saved = out.res.saved,
                  !.cancelled = out.res.cancelled,
                  !.exhausted = out.res.exhausted,
                  !.failed_save = out.res.failed_save,
                  !.backs = out.res.backs, !.listed = out.res.listed,
                  !.mjr = out.res.mjr, !.args = out.res.cards,
                  !.clicks = IF /\ op = "list"
                                /\ out.res.bid # NoId
                                /\ out.res.w.sm.current_state # "LIST"
                             THEN hist.clicks \cup {out.res.bid}
                             ELSE hist.clicks,
                  !.saved_groups = hist.saved_groups
                                      \cup GroupsSaved(op, out.res),
                  !.unconfirmed = /\ hist.op = "detail"
                                  /\ ~hist.listed
                                  /\ sm.current_state = "LIST",
                  !.sid = sm.session_id, !.resumed = hist.resumed,
                  !.us = LastUpdate(out.res.w.log, out.res.w.sm, hist.us)]
    /\ steps' = IF steps < 0 THEN steps ELSE steps + 1
    /\ UNCHANGED <<multiday_headers, now>>

InLoop(state) == run.up /\ sm.current_state = state /\ steps < MaxIters

\* run, lines 153-176 and 209-212: the NAVIGATING_TO_LIST iteration.  nav is
\* "shown" (the list is displayed, at once or after one back()), "missing"
\* or "raise" (driver.back() raised).  After a failure the iteration goes on
\* to the processor lookup, which finds none for NAVIGATING_TO_LIST.
RunNavigate ==
    /\ InLoop("NAVIGATING_TO_LIST")
    /\ \E nav \in {"shown", "missing", "raise"} :
         LET w0 == World(sm, sessions, <<>>)
         IN IF nav = "shown"
            THEN Commit("navigate",
                        [res |-> Result(UpdateState(w0, "LIST", Ellipsis,
                                                    Ellipsis, Ellipsis, NoMsg),
                                        bookings, lp),
                         count |-> 0], TRUE)
            ELSE
              LET m1 == IF nav = "missing"
                        THEN "Initial navigation to list page failed"
                        ELSE "Initial navigation error"
                  w1 == UpdateState(w0, "ERROR", Ellipsis, Ellipsis,
                                    Ellipsis, m1)
                  r2 == Fail(w1, bookings, lp, Ellipsis, Ellipsis,
                             "No processor for state")
              IN Commit("navigate",
                        AfterProcessor(r2, run.consecutive_error_count), TRUE)

\* run, lines 183-191: the LIST iteration
RunList ==
    /\ InLoop("LIST")
    /\ \E e \in ListEnv(bookings, lp, run.is_processing_fresh_list_view) :
         LET r == ListProcess(World(sm, sessions, <<>>), bookings, lp,
                              run.is_processing_fresh_list_view, e, now)
         IN Commit("list", AfterProcessor(r, run.consecutive_error_count),
                   r.w.sm.current_state # "LIST")

\* run, lines 192-196: the SECONDARY iteration
RunSecondary ==
    /\ InLoop("SECONDARY")
    /\ \E e \in SecondaryEnv(sm.current_booking_id) :
         LET r == SecondaryProcess(World(sm, sessions, <<>>), bookings, lp, e)
         IN Commit("secondary",
                   AfterProcessor(r, run.consecutive_error_count),
                   IF r.w.sm.current_state = "LIST" THEN TRUE
                   ELSE run.is_processing_fresh_list_view)

\* run, lines 192-196: the DETAIL iteration
RunDetail ==
    /\ InLoop("DETAIL")
    /\ \E e \in DetailEnv(sm.current_mjr_id) :
         LET r == DetailProcess(World(sm, sessions, <<>>), bookings, lp, e)
         IN Commit("detail",
                   AfterProcessor(r, run.consecutive_error_count),
                   IF r.w.sm.current_state = "LIST" THEN TRUE
                   ELSE run.is_processing_fresh_list_view)

\* run, lines 148 and 221-223: the loop condition fails, cleanup, the process
\* ends
LoopExit ==
    /\ run.up
    /\ sm.current_state \in {"FINISHED", "ERROR"}
    /\ sm' = InitSM
    /\ lp' = InitLP
    /\ run' = InitRun
    /\ hist' = [NoHist EXCEPT !.op = "exit", !.sid = sm.session_id,
                              !.us = hist.us]
    /\ UNCHANGED <<multiday_headers, sessions, bookings, now, steps>>

Next ==
    \/ Start
    \/ RunNavigate
    \/ RunList
    \/ RunSecondary
    \/ RunDetail
    \/ LoopExit
    \/ Crash

Spec == Init /\ [][Next]_vars

\* SpecLive: one run of the loop without a bound on its iterations (a
\* negative steps is not counted), the last process start the clock allows,
\* on a list that has a single card, the Normal card of booking 1, which is
\* on screen or scrolled out of it.  Every call into the driver returns, so
\* an iteration that has begun completes: each iteration of the loop is
\* weakly fair.
InitLive ==
    /\ sessions = <<>>
    /\ bookings = [b \in Bookings |-> NoRow]
    /\ multiday_headers = {}
    /\ sm = InitSM
    /\ lp = InitLP
    /\ run = InitRun
    /\ now = MaxStarts - 1
    /\ steps = -1
    /\ hist = NoHist

\* The LIST iteration on the list of one card
LiveList ==
    /\ RunList
    /\ hist'.args \in {<<>>, <<<<1, "Normal">>>>}

NextLive ==
    \/ Start
    \/ RunNavigate
    \/ LiveList
    \/ RunSecondary
    \/ RunDetail
    \/ LoopExit
    \/ Crash

IterationsComplete ==
    /\ WF_vars(RunNavigate)
    /\ WF_vars(LiveList)
    /\ WF_vars(RunSecondary)
    /\ WF_vars(RunDetail)

SpecLive == InitLive /\ [][NextLive]_vars /\ IterationsComplete

\* ----------------------------------------- SpecRepo: the repository API
\* The bookings table under any sequence of the repository's writes, with
\* the arguments of their call sites.
RepoCardStatuses == CardStatuses \cup {"Unknown"}
RepoStatusArgs ==
    {"scraped", "skipped_offer_viewed", "error_list", "error_detail_extract"}

RepoStep(op, b, card, args, bk, rows) ==
    /\ bookings' = bk
    /\ hist' = [NoHist EXCEPT !.op = op, !.bid = b, !.card = card,
                              !.args = args, !.written = rows]
    /\ steps' = steps + 1
    /\ UNCHANGED <<multiday_headers, sessions, sm, lp, run, now>>

RInsertBookingBase ==
    /\ steps < MaxCalls
    /\ \E b \in Bookings, cs \in RepoCardStatuses :
       RepoStep("insert_booking_base", b, cs, <<>>,
                InsertBookingBase(bookings, b, cs),
                InsertBookingBaseRows(bookings, b, cs))

RUpdateBookingStatus ==
    /\ steps < MaxCalls
    /\ \E b \in Bookings, st \in RepoStatusArgs :
       RepoStep("update_booking_status", b, "None", <<>>,
                UpdateBookingStatus(bookings, b, st),
                UpdateBookingStatusRows(bookings, b, st))

RUpdateBookingSecondaryIds ==
    /\ steps < MaxCalls
    /\ \E b \in Bookings, th \in {"None", "Face To Face"} :
       \E c \in {NoId, b}, g \in Groups,
          n \in {NoHint, 0, 1, Cardinality(Days(GroupOf(b)))} :
       RepoStep("update_booking_secondary_ids", b, "None", <<c, g, n, th>>,
                UpdateBookingSecondaryIds(bookings, b, c, g, n, th),
                UpdateBookingSecondaryIdsRows(bookings, b, c, g, n, th))

RSaveBookingDetails ==
    /\ steps < MaxCalls
    /\ \E b \in Bookings :
       \E g \in {NoId, GroupOf(b)} :
       RepoStep("save_booking_details", b, "None", <<>>,
                SaveBookingDetails(bookings, b, g, GroupOf(b), GroupOf(b),
                                   "scraped", 0),
                SaveBookingDetailsRows(bookings, b))

RUpdateAllMjaStatusesForMjr ==
    /\ steps < MaxCalls
    /\ \E g \in Groups \cup {NoId}, st \in RepoStatusArgs :
       /\ bookings' = UpdateAllMjaStatusesForMjr(bookings, g, st)
       /\ hist' = [NoHist EXCEPT
                     !.op = "update_all_mja_statuses_for_mjr", !.mjr = g,
                     !.args = <<st>>,
                     !.written =
                        UpdateAllMjaStatusesForMjrRows(bookings, g, st)]
       /\ steps' = steps + 1
       /\ UNCHANGED <<multiday_headers, sessions, sm, lp, run, now>>

RCheckIfAllMjasForMjrScraped ==
    /\ steps < MaxCalls
    /\ \E g \in Groups \cup {NoId} :
       /\ hist' = [NoHist EXCEPT
                     !.op = "check_if_all_mjas_for_mjr_scraped", !.mjr = g,
                     !.ret = CheckIfAllMjasForMjrScraped(bookings, g)]
       /\ steps' = steps + 1
       /\ UNCHANGED <<multiday_headers, bookings, sessions, sm, lp, run, now>>

NextRepo ==
    \/ RInsertBookingBase
    \/ RUpdateBookingStatus
    \/ RUpdateBookingSecondaryIds
    \/ RSaveBookingDetails
    \/ RCheckIfAllMjasForMjrScraped
    \/ RUpdateAllMjaStatusesForMjr

SpecRepo == Init /\ [][NextRepo]_vars

\* ------------------------------------- SpecParsers: the parsers, as functions
\* A datetime.time is <<hour, minute>>; None is the empty tuple.  An "HH:MM"
\* text is the tuple of its four digits.
Hours == 0 .. 23
Minutes == {0, 15, 30, 45, 59}
Times == Hours \X Minutes
NoTimeObj == <<>>
NoDuration == <<>>

\* f"{hours:02d}:{minutes:02d}"
FormatHHMM(hours, minutes) ==
    <<hours \div 10, hours % 10, minutes \div 10, minutes % 10>>

\* datetime.combine(dummy_date, t), in minutes from the start of the dummy day
Combine(t) == t[1] * 60 + t[2]

\* A duration that does not roll over to the next day
CalculateDurationStrSameDay(start_time_obj, end_time_obj) ==
    IF start_time_obj = NoTimeObj \/ end_time_obj = NoTimeObj THEN NoDuration
    ELSE LET start_dt == Combine(start_time_obj)
             end_dt == Combine(end_time_obj)
             total_seconds == (end_dt - start_dt) * 60
         IN IF total_seconds <= 0 THEN FormatHHMM(0, 0)
            ELSE FormatHHMM(total_seconds \div 3600,
                            (total_seconds % 3600) \div 60)

\* mja_parser._calculate_duration_str
CalculateDurationStr(start_time_obj, end_time_obj) ==
    IF start_time_obj = NoTimeObj \/ end_time_obj = NoTimeObj THEN NoDuration
    ELSE LET start_dt == Combine(start_time_obj)
             end_dt0 == Combine(end_time_obj)
             end_dt == IF end_dt0 < start_dt THEN end_dt0 + 24 * 60
                       ELSE end_dt0
             total_seconds == (end_dt - start_dt) * 60
         IN IF end_dt0 >= start_dt /\ end_dt0 = start_dt
            THEN FormatHHMM(0, 0)
            ELSE IF total_seconds < 0 THEN NoDuration
            ELSE FormatHHMM(total_seconds \div 3600,
                            (total_seconds % 3600) \div 60)

\* time_utils.calculate_duration_string
CalculateDurationString(start_time_obj, end_time_obj) ==
    IF start_time_obj = NoTimeObj \/ end_time_obj = NoTimeObj THEN NoDuration
    ELSE LET start_dt == Combine(start_time_obj)
             end_dt0 == Combine(end_time_obj)
         IN IF end_dt0 = start_dt THEN FormatHHMM(0, 0)
            ELSE LET end_dt == IF end_dt0 < start_dt THEN end_dt0 + 24 * 60
                               ELSE end_dt0
                     total_seconds == (end_dt - start_dt) * 60
                 IN IF total_seconds < 0 THEN NoDuration
                    ELSE FormatHHMM(total_seconds \div 3600,
                                    (total_seconds % 3600) \div 60)

\* A card descriptor is the sequence of its comma-separated fields.  The
\* fields are drawn from texts of each shape the parser tells apart.
StatusPrefixes == {"Cancelled", "New Offer", "Viewed"}
MjaIds == {"MJA00000001", "MJA00000002"}
DescFields ==
    StatusPrefixes \cup MjaIds
    \cup {"Remote", "REMOTE", "AB1 2CD", "M11AA", "09:00 to 10:00",
          "23:30 - 00:15", "English to Polish", "NoMJAIDHere", ""}
Descs == UNION {[1 .. n -> DescFields] : n \in 0 .. MaxFields}

\* The least element of a set of indices, 0 when there is none
FirstOf(S) == IF S = {} THEN 0 ELSE CHOOSE i \in S : \A j \in S : i <= j

\* sanitize_postcode: POSTCODE_REGEX.search, upper case, one space before
\* the inward code
SanitizePostcode(raw) ==
    CASE raw = "AB1 2CD" -> "AB1 2CD"
      [] raw = "M11AA" -> "M1 1AA"
      [] OTHER -> "None"

\* DURATION_REGEX.search: <<group(1), group(2)>>, the empty tuple when the
\* field has no time range
DurationMatch(part) ==
    CASE part = "09:00 to 10:00" -> <<"09:00", "10:00">>
      [] part = "23:30 - 00:15" -> <<"23:30", "00:15">>
      [] OTHER -> <<>>

\* mja_parser._parse_time_str_to_datetime
ParseTimeStrToDatetime(time_str) ==
    CASE time_str = "09:00" -> <<9, 0>>
      [] time_str = "10:00" -> <<10, 0>>
      [] time_str = "23:30" -> <<23, 30>>
      [] time_str = "00:15" -> <<0, 15>>
      [] OTHER -> NoTimeObj

\* part.lower() == "remote"
IsRemoteToken(part) == part \in {"Remote", "REMOTE"}

\* A search for the identifier that looks at the first field only
FindMjaIdAtStart(fields) ==
    IF fields # <<>> /\ fields[1] \in MjaIds THEN 1 ELSE 0

\* parse_mja, line 66: MJA_ID_REGEX.search, the index of the first field
\* holding an identifier, 0 when there is none
FindMjaId(fields) == FirstOf({i \in DOMAIN fields : fields[i] \in MjaIds})

\* No inference of the remote flag
InferRemoteNever(postcode_raw, is_remote) == is_remote

\* parse_mja, lines 116-117: no postcode and not explicitly remote
InferRemote(postcode_raw, is_remote) ==
    IF postcode_raw = "None" /\ is_remote = 0 THEN 1 ELSE is_remote

\* What parse_mja returns for a descriptor without identifier (None)
NoParse ==
    [matched |-> FALSE, booking_id |-> "None", card_status |-> "None",
     postcode |-> "None", start_time_raw |-> "None", end_time_raw |-> "None",
     calculated_duration_str |-> NoDuration, language_pair |-> "None",
     isRemote |-> 0]

\* parse_mja (original_duration_str, the two raw times joined by " to ", is
\* left out)
ParseMja(desc) ==
    IF desc = <<>> \/ desc = <<"">> THEN NoParse
    ELSE
      LET has_prefix == Len(desc) >= 2 /\ desc[1] \in StatusPrefixes
          card_status == IF has_prefix THEN desc[1] ELSE "Normal"
          desc_to_process == IF has_prefix THEN Tail(desc) ELSE desc
          mja_match == FindMjaId(desc_to_process)
      IN IF mja_match = 0 THEN NoParse
         ELSE
           LET parts == SelectSeq(SubSeq(desc_to_process, mja_match + 1,
                                         Len(desc_to_process)),
                                  LAMBDA p : p # "")
               dur == FirstOf({i \in DOMAIN parts :
                                 DurationMatch(parts[i]) # <<>>})
               start_time_raw == IF dur = 0 THEN "None"
                                 ELSE DurationMatch(parts[dur])[1]
               end_time_raw == IF dur = 0 THEN "None"
                               ELSE DurationMatch(parts[dur])[2]
               loc == FirstOf({i \in DOMAIN parts \ {dur} :
                                 \/ IsRemoteToken(parts[i])
                                 \/ SanitizePostcode(parts[i]) # "None"})
               explicit == loc # 0 /\ IsRemoteToken(parts[loc])
               postcode_raw == IF loc = 0 \/ explicit THEN "None"
                               ELSE SanitizePostcode(parts[loc])
               is_remote == IF explicit THEN 1 ELSE 0
               rest == DOMAIN parts \ {dur, loc}
           IN [matched |-> TRUE,
               booking_id |-> desc_to_process[mja_match],
               card_status |-> card_status,
               postcode |-> postcode_raw,
               start_time_raw |-> start_time_raw,
               end_time_raw |-> end_time_raw,
               calculated_duration_str |->
                  IF dur = 0 THEN NoDuration
                  ELSE CalculateDurationStr(
                          ParseTimeStrToDatetime(start_time_raw),
                          ParseTimeStrToDatetime(end_time_raw)),
               language_pair |->
                  IF rest = {} THEN "None"
                  ELSE parts[CHOOSE i \in rest : \A j \in rest : j <= i],
               isRemote |-> InferRemote(postcode_raw, is_remote)]

\* A date is <<day, month, year>>, the fields of a DD-MM-YYYY text in the
\* order of the text; the empty tuple is None.
NoDate == <<>>
RawDates == {<<1, 7, 2025>>, <<31, 7, 2025>>, <<31, 12, 2025>>,
             <<31, 2, 2025>>, <<2025, 7, 1>>}
DateRanges == {NoDate} \cup {<<d, d>> : d \in RawDates}

DaysInMonth(m, y) ==
    CASE m \in {4, 6, 9, 11} -> 30
      [] m = 2 -> IF y % 4 = 0 /\ (y % 100 # 0 \/ y % 400 = 0)
                  THEN 29 ELSE 28
      [] OTHER -> 31

\* detail_parser.parse_uk_date: the text when it is two digits, two digits
\* and four digits naming a date of the calendar, None otherwise
ParseUkDate(raw_date_str) ==
    IF raw_date_str = NoDate THEN NoDate
    ELSE IF /\ raw_date_str[1] \in 0 .. 99
            /\ raw_date_str[2] \in 0 .. 99
            /\ raw_date_str[3] \in 0 .. 9999
            /\ raw_date_str[2] \in 1 .. 12
            /\ raw_date_str[3] >= 1
            /\ raw_date_str[1] \in
                  1 .. DaysInMonth(raw_date_str[2], raw_date_str[3])
         THEN raw_date_str
         ELSE NoDate

\* date + timedelta(days = k)
RECURSIVE AddDays(_, _)
AddDays(date, k) ==
    IF k = 0 THEN date
    ELSE IF date[1] < DaysInMonth(date[2], date[3])
         THEN AddDays(<<date[1] + 1, date[2], date[3]>>, k - 1)
         ELSE IF date[2] < 12
              THEN AddDays(<<1, date[2] + 1, date[3]>>, k - 1)
              ELSE AddDays(<<1, 1, date[3] + 1>>, k - 1)

\* A day-payment block: its day identifier (NoId when absent) and its
\* payment lines, in pence (of the six lines pay_sl and pay_td are kept)
Blocks == [mja : {NoId, 2, 3}, pay_sl : {NoMoney, 16600},
           pay_td : {NoMoney, 193}]
BlockLists == UNION {[1 .. n -> Blocks] : n \in 0 .. MaxBlocks}
Totals == {NoMoney, 33200, 33586}

\* dict.get(key)
Get(d, key) == IF key \in DOMAIN d THEN d[key] ELSE NoDate

\* The sum of the payment lines a block has
CurrentDayTotalCalc(block) ==
    (IF block.pay_sl # NoMoney THEN block.pay_sl ELSE 0)
    + (IF block.pay_td # NoMoney THEN block.pay_td ELSE 0)

FoundAnyPaymentForDay(block) ==
    block.pay_sl # NoMoney \/ block.pay_td # NoMoney

\* parse_detail_data, lines 421-447: the entry of one day block, i its
\* 0-based index among the payment blocks
DaySpecificData(block, i, start_date_obj) ==
    [mja |-> block.mja,
     booking_date |-> IF start_date_obj # NoDate
                      THEN AddDays(start_date_obj, i) ELSE NoDate,
     pay_sl |-> block.pay_sl,
     pay_td |-> block.pay_td,
     day_total |-> IF FoundAnyPaymentForDay(block)
                   THEN CurrentDayTotalCalc(block) ELSE NoMoney]

\* parse_detail_data: the date, payment and total fields of its result.
\* header_date is the date of the header (the date of a single day, the
\* date range of several days) and pay_total the grand total.
\* multiday_payments is empty for a single day (None in the code).
ParseDetailData(is_multiday, header_date, payment_blocks, pay_total) ==
    LET parsed == [is_multiday |-> is_multiday,
                   multiday_date_range |->
                      IF is_multiday THEN header_date ELSE NoDate,
                   overall_total |-> pay_total]
    IN IF is_multiday
       THEN LET range == Get(parsed, "multiday_date_range_raw")
                start_date_obj == IF range # NoDate
                                  THEN ParseUkDate(range[1]) ELSE NoDate
                days == [i \in 1 .. Len(payment_blocks) |->
                           DaySpecificData(payment_blocks[i], i - 1,
                                           start_date_obj)]
            IN [is_multiday |-> TRUE,
                multiday_date_range |-> parsed.multiday_date_range,
                overall_total |-> parsed.overall_total,
                booking_date |-> NoDate,
                day_total |-> NoMoney,
                multiday_payments |->
                   SelectSeq(days, LAMBDA d : d.mja # NoId)]
       ELSE LET block == IF payment_blocks # <<>> THEN payment_blocks[1]
                         ELSE [mja |-> NoId, pay_sl |-> NoMoney,
                               pay_td |-> NoMoney]
            IN [is_multiday |-> FALSE,
                multiday_date_range |-> NoDate,
                overall_total |-> parsed.overall_total,
                booking_date |-> IF header_date # NoDate
                                 THEN ParseUkDate(header_date[1])
                                 ELSE NoDate,
                day_total |-> IF FoundAnyPaymentForDay(block)
                              THEN CurrentDayTotalCalc(block)
                              ELSE parsed.overall_total,
                multiday_payments |-> <<>>]

\* A parser call (one per behaviour): the history records its arguments and
\* what it returned
ParserStep(op, args, ret) ==
    /\ hist' = [NoHist EXCEPT !.op = op, !.args = args, !.ret = ret]
    /\ UNCHANGED <<sessions, bookings, multiday_headers, sm, lp, run, now,
                   steps>>

\* Both duration functions on the same pair of times
PDuration ==
    /\ hist.op = "none"
    /\ \E start_time_obj \in Times, end_time_obj \in Times :
         ParserStep("duration", <<start_time_obj, end_time_obj>>,
                    <<CalculateDurationStr(start_time_obj, end_time_obj),
                      CalculateDurationString(start_time_obj, end_time_obj)>>)

\* parse_mja on a descriptor
PParseMja ==
    /\ hist.op = "none"
    /\ \E desc \in Descs : ParserStep("parse_mja", desc, ParseMja(desc))

\* parse_detail_data on the extracted parts of a detail stream
PParseDetailData ==
    /\ hist.op = "none"
    /\ \E is_multiday \in BOOLEAN, header_date \in DateRanges,
          payment_blocks \in BlockLists, pay_total \in Totals :
         ParserStep("parse_detail_data",
                    <<is_multiday, header_date, payment_blocks, pay_total>>,
                    ParseDetailData(is_multiday, header_date, payment_blocks,
                                    pay_total))

NextParsers ==
    \/ PDuration
    \/ PParseMja
    \/ PParseDetailData

SpecParsers == Init /\ [][NextParsers]_vars

\* ------------------------------------------------------ tracker properties
LoadStep == ~run.up /\ run'.up

RunningSessions(s) == {i \in DOMAIN s : s[i].status = "running"}

\* C1: load_or_create_session adopts the most recent 'running' or 'error'
\* session without inserting a row, resumes in the persisted state if that is
\* LIST, SECONDARY or DETAIL and in NAVIGATING_TO_LIST otherwise; only when
\* there is no such session is a new 'running' row inserted, in state
\* NAVIGATING_TO_LIST.
C1_LoadAdoptsOrCreates ==
    [][LoadStep =>
        IF LiveSessions(sessions) # {}
        THEN /\ Len(sessions') = Len(sessions)
             /\ sm'.session_id \in LiveSessions(sessions)
             /\ \A j \in LiveSessions(sessions) :
                   sessions[sm'.session_id].start_time >= sessions[j].start_time
             /\ sm'.current_state =
                   (IF sessions[sm'.session_id].last_state
                          \in {"LIST", "SECONDARY", "DETAIL"}
                    THEN sessions[sm'.session_id].last_state
                    ELSE "NAVIGATING_TO_LIST")
        ELSE /\ Len(sessions') = Len(sessions) + 1
             /\ sm'.session_id = Len(sessions')
             /\ sessions'[Len(sessions')].status = "running"
             /\ sessions'[Len(sessions')].last_state = "NAVIGATING_TO_LIST"
             /\ sm'.current_state = "NAVIGATING_TO_LIST"
             /\ \A i \in DOMAIN sessions : sessions'[i] = sessions[i]]_vars

\* A session whose persisted state was ERROR has been resumed in
\* NAVIGATING_TO_LIST, with no second row.
C1_Witness ==
    /\ hist.op = "load"
    /\ now = 2
    /\ Len(sessions) = 1
    /\ sessions[1].last_state = "ERROR"
    /\ sm.session_id = 1
    /\ sm.current_state = "NAVIGATING_TO_LIST"

\* C4: at most one bookings_scrape row has status 'running', over any
\* sequence of starts, state updates, session finishes, stops and restarts.
C4_AtMostOneRunning == Cardinality(RunningSessions(sessions)) <= 1

\* A second session runs next to a completed first one.
C4_Witness ==
    /\ Len(sessions) = 2
    /\ sessions[1].status = "completed"
    /\ sessions[2].status = "running"

C2_DetailRoundTrip ==
    [][(LoadStep /\ hist.us[1] = "DETAIL") =>
          /\ sm'.current_state = "DETAIL"
          /\ sm'.current_booking_id = hist.us[2]
          /\ sm'.current_mjr_id = hist.us[3]]_vars

\* A restarted process has resumed in DETAIL on the booking and group the
\* secondary processor persisted.
C2_Witness ==
    /\ hist.op = "load"
    /\ hist.resumed
    /\ hist.us[1] = "DETAIL"
    /\ sm.current_state = "DETAIL"
    /\ sm.current_booking_id \in Bookings
    /\ sm.current_mjr_id = GroupOf(sm.current_booking_id)

\* C3: in a process that resumed a session, the list processor never clicks
\* (LIST -> SECONDARY) the card of a booking stored as 'scraped', and the
\* detail processor never saves such a booking again.
C3_NoRescrapeAfterResume ==
    [][hist'.resumed =>
          /\ (hist'.op = "list" /\ hist'.bid # NoId)
                => bookings[hist'.bid].status # "scraped"
          /\ hist'.op = "detail"
                => \A b \in hist'.saved : bookings[b].status # "scraped"]_vars

\* C5: a booking stored as 'scraped' leaves that status only for
\* 'cancelled_on_list', by a cancellation observed on the list.
C5_ScrapedOnlyToCancelled ==
    [][\A b \in Bookings :
          (bookings[b].status = "scraped" /\ bookings'[b].status # "scraped")
             => /\ bookings'[b].status = "cancelled_on_list"
                /\ b \in hist'.cancelled]_vars

\* The state changes the state diagram allows
DiagramChanges ==
    {<<"NAVIGATING_TO_LIST", "LIST">>, <<"LIST", "LIST">>,
     <<"LIST", "SECONDARY">>, <<"SECONDARY", "LIST">>,
     <<"SECONDARY", "DETAIL">>, <<"DETAIL", "LIST">>, <<"LIST", "FINISHED">>}
    \cup {<<s, "ERROR">> : s \in ScrapeStates}

ChangesOfStep == {<<hist.log[i][1], hist.log[i][2]>> : i \in DOMAIN hist.log}

C9_ExhaustionCompletes ==
    hist.exhausted =>
       /\ sm.current_state = "FINISHED"
       /\ sessions[sm.session_id].status = "completed"

\* C10: when the run loop has terminated the session row has its end_time.
C10_EndTimeAtLoopExit ==
    hist.op = "exit" => sessions[hist.sid].end_time # NoTime

\* C11: the run loop halts on errors only when the consecutive-error counter
\* has reached max_consecutive_errors; the session is then marked 'error'.
C11_HaltOnlyAtMaxErrors ==
    [][(run.up /\ hist'.op = "exit") =>
          /\ run.consecutive_error_count >= max_consecutive_errors
          /\ sessions[sm.session_id].status = "error"]_vars

\* The last step met a transient per-screen failure: the screen expected by
\* the list or secondary processor was not shown, the selected card went
\* stale or its click failed, the group link could not be clicked, or the
\* detail page did not appear in time.
TransientFailure ==
    \/ hist.msg \in {"Failed to ensure on list page", "Click error",
                     "Failed to ensure on secondary page",
                     "Failed to click MJR link"}
    \/ /\ hist.op = "list"
       /\ <<"SECONDARY", "LIST">> \in ChangesOfStep
    \/ /\ hist.op = "detail"
       /\ <<"DETAIL", "NAVIGATING_TO_LIST">> \in ChangesOfStep

\* C12: a transient per-screen failure moves the tracker to LIST and never
\* to ERROR, in the list, secondary and detail processors alike.
C12_TransientReturnsToList ==
    TransientFailure => sm.current_state = "LIST"

\* C13: when the store write of a detail save fails, the row is left as it
\* was (rolled back), the booking's status becomes 'error_save' and the
\* tracker returns to LIST.
C13_FailedSaveMarksErrorSave ==
    [][(hist'.op = "detail" /\ hist'.failed_save # {}) =>
          /\ \A b \in hist'.failed_save :
                bookings'[b].status = "error_save"
          /\ sm'.current_state = "LIST"]_vars

\* The detail processor met a page whose language-pair anchor is absent
AnchorMissingStep ==
    /\ hist'.op = "detail"
    /\ hist'.msg = DetailErrorMsg("language anchor not found")

\* C14: when the language-pair anchor is absent, DetailProcessor.process
\* completes with a tracker state (no exception escapes), saves no detail
\* row, sets the current booking's status to an error_* value and leaves
\* DETAIL.
C14_AnchorMissingHandled ==
    [][AnchorMissingStep =>
          /\ hist'.saved = {}
          /\ \A b \in Bookings \ {sm.current_booking_id} :
                bookings'[b] = bookings[b]
          /\ sm.current_booking_id \in Bookings
          /\ bookings'[sm.current_booking_id] =
                [bookings[sm.current_booking_id]
                   EXCEPT !.status = "error_detail_extract"]
          /\ sm.current_state = "DETAIL"
          /\ sm'.current_state \in ScrapeStates \ {"DETAIL"}]_vars

\* A detail page without the language-pair anchor has been handled: the
\* booking that was 'pending' is now 'error_detail_extract'.
C14_Witness ==
    /\ hist.op = "detail"
    /\ hist.msg = DetailErrorMsg("language anchor not found")
    /\ hist.bid = NoId
    /\ sm.current_state = "ERROR"
    /\ sm.current_booking_id \in Bookings
    /\ bookings[sm.current_booking_id].status = "error_detail_extract"

\* C15: the back-navigation attempts of a step are bounded (three back()
\* calls in _navigate_back_to_list, ensure_retries in _ensure_on_list_page),
\* and when the detail processor has set LIST without confirming the list
\* page and the list processor's retries do not find it either, the tracker
\* state becomes ERROR.
C15_BackNavigationBoundedThenError ==
    /\ hist.op = "detail" => hist.backs <= 3
    /\ hist.op = "list" => hist.backs <= ensure_retries
    /\ (hist.op = "detail" /\ ~hist.listed)
          => sm.current_state \in {"LIST", "ERROR"}
    /\ (hist.op = "list" /\ hist.unconfirmed /\ ~hist.listed)
          => /\ hist.backs = ensure_retries
             /\ sm.current_state = "ERROR"

\* After a detail step whose three back() calls did not reach the list, the
\* list processor has used up its retries and the tracker is in ERROR.
C15_Witness ==
    /\ hist.op = "list"
    /\ hist.unconfirmed
    /\ ~hist.listed
    /\ hist.backs = ensure_retries
    /\ sm.current_state = "ERROR"
    /\ sm.previous_state = "LIST"

\* C16: the secondary processor enters DETAIL only with a non-empty parsed
\* group id and a successful click on the group link, and then current_mjr_id
\* is the parsed group id (also stored in the booking's row); when the group
\* id is absent or the click fails the step ends in ERROR, not DETAIL.
C16_DetailOnlyWithGroupId ==
    [][hist'.op = "secondary" =>
          /\ sm'.current_state = "DETAIL" =>
                /\ hist'.mjr # NoId
                /\ hist'.msg = NoMsg
                /\ sm'.current_mjr_id = hist'.mjr
                /\ sm'.current_booking_id = sm.current_booking_id
                /\ bookings'[sm.current_booking_id].mjr_id = hist'.mjr
          /\ hist'.mjr = NoId => sm'.current_state = "ERROR"
          /\ hist'.msg \in {"MJR ID missing", "Failed to click MJR link"}
                => sm'.current_state = "ERROR"]_vars

\* The secondary processor has entered DETAIL with the group id it parsed.
C16_Witness ==
    /\ hist.op = "secondary"
    /\ sm.current_state = "DETAIL"
    /\ hist.mjr \in Groups
    /\ sm.current_mjr_id = hist.mjr
    /\ bookings[sm.current_booking_id].mjr_id = hist.mjr


\* -------------------------------------------------- repository properties
CardDefaultStatus(card) ==
    CASE card \in {"Normal", "Unknown"} -> "pending"
      [] card = "Cancelled" -> "cancelled_on_list"
      [] card \in {"New Offer", "Viewed"} -> "skipped_offer_viewed"

\* C6: insert_booking_base on a stored booking keeps 'scraped' for every card
\* status but Cancelled, which gives 'cancelled_on_list'; a status other than
\* 'scraped' becomes the card's default processing status.
C6_InsertMergesStatus ==
    [][(hist'.op = "insert_booking_base" /\ bookings[hist'.bid].exists) =>
          bookings'[hist'.bid].status =
             IF bookings[hist'.bid].status = "scraped"
             THEN (IF hist'.card = "Cancelled" THEN "cancelled_on_list"
                   ELSE "scraped")
             ELSE CardDefaultStatus(hist'.card)]_vars

\* A Viewed card has been merged into a booking that stays 'scraped'.
C6_Witness ==
    /\ hist.op = "insert_booking_base"
    /\ hist.card = "Viewed"
    /\ bookings[hist.bid].status = "scraped"

\* The stored rows of group g, and those of them that are 'scraped'
RowsWithMjr(g) ==
    {b \in Bookings : bookings[b].exists /\ bookings[b].mjr_id = g}

ScrapedWithMjr(g) == {b \in RowsWithMjr(g) : bookings[b].status = "scraped"}

\* C17: check_if_all_mjas_for_mjr_scraped(g) is true only when g is not
\* empty and the number of rows of g with status 'scraped' is at least the
\* positive hint stored in a row of g; it is false when no row of g has a
\* hint, or only hints that are not positive.
C17_AllScrapedOnlyWithHint ==
    hist.op = "check_if_all_mjas_for_mjr_scraped" =>
       /\ hist.ret =>
             /\ hist.mjr # NoId
             /\ \E b \in RowsWithMjr(hist.mjr) :
                   /\ bookings[b].appointment_count_hint > 0
                   /\ Cardinality(ScrapedWithMjr(hist.mjr))
                         >= bookings[b].appointment_count_hint
       /\ (\A b \in RowsWithMjr(hist.mjr) :
              bookings[b].appointment_count_hint <= 0) => ~hist.ret

\* The check has answered true for a group whose scraped rows reach the hint.
C17_Witness ==
    /\ hist.op = "check_if_all_mjas_for_mjr_scraped"
    /\ hist.ret
    /\ hist.mjr \in Groups
    /\ Cardinality(ScrapedWithMjr(hist.mjr)) >= 1

\* The check has answered false for a group that has a scraped row but no
\* positive hint.
C17_WitnessNoHint ==
    /\ hist.op = "check_if_all_mjas_for_mjr_scraped"
    /\ ~hist.ret
    /\ ScrapedWithMjr(hist.mjr) # {}
    /\ \A b \in RowsWithMjr(hist.mjr) : bookings[b].appointment_count_hint <= 0

\* C18: a second insert_booking_base call with the same card record for the
\* booking the call before stored writes no row (rowcount 0, last_updated
\* kept) and leaves the table as it is.
C18_SecondInsertWritesNothing ==
    [][(/\ hist.op = "insert_booking_base"
        /\ hist'.op = "insert_booking_base"
        /\ hist'.bid = hist.bid
        /\ hist'.card = hist.card) =>
          /\ hist'.written = {}
          /\ bookings' = bookings]_vars

\* The values of an update_booking_secondary_ids call are those of the row
SameSecondaryIds(row, args) ==
    /\ row.creation_id = args[1]
    /\ row.processing_id = args[2]
    /\ row.mjr_id = args[2]
    /\ row.appointment_count_hint = args[3]
    /\ row.type_hint = args[4]

\* C19: update_booking_secondary_ids writes the booking's row (bumping
\* last_updated) only if the row exists and one of creation_id,
\* processing_id, mjr_id, appointment_count_hint, type_hint differs from the
\* call's value; with identical values, or no such booking, no row is written
\* and the table is unchanged.  No other row is ever touched.
C19_SecondaryIdsWriteOnlyOnChange ==
    [][hist'.op = "update_booking_secondary_ids" =>
          LET b == hist'.bid
              same == SameSecondaryIds(bookings[b], hist'.args)
          IN /\ hist'.written \subseteq {b}
             /\ hist'.written = {b} => (bookings[b].exists /\ ~same)
             /\ (bookings[b].exists /\ ~same)
                   => /\ hist'.written = {b}
                      /\ SameSecondaryIds(bookings'[b], hist'.args)
             /\ (~bookings[b].exists \/ same)
                   => /\ hist'.written = {}
                      /\ bookings' = bookings
             /\ \A c \in Bookings \ {b} : bookings'[c] = bookings[c]]_vars

\* update_booking_secondary_ids has been called with the values the stored
\* row already holds, and has written nothing.
C19_Witness ==
    /\ hist.op = "update_booking_secondary_ids"
    /\ bookings[hist.bid].exists
    /\ bookings[hist.bid].mjr_id \in Groups
    /\ SameSecondaryIds(bookings[hist.bid], hist.args)
    /\ hist.written = {}

\* C20: a detail save of a day that is already stored overwrites its columns
\* from the new parse (no creation_id, no hints), sets status 'scraped' and
\* leaves scrape_attempt greater than it was.
C20_SaveAdvancesAttempt ==
    [][hist'.op = "detail" =>
          \A b \in hist'.saved :
             bookings[b].exists =>
                /\ bookings'[b].status = "scraped"
                /\ bookings'[b].creation_id = NoId
                /\ bookings'[b].scrape_attempt > bookings[b].scrape_attempt]_vars

\* C21: update_all_mja_statuses_for_mjr(g, s) leaves every booking whose
\* mjr_id is g with status s and no other column changed, changes no booking
\* of another group, and changes nothing when g is empty.
C21_BulkUpdateOnlyGroup ==
    [][hist'.op = "update_all_mja_statuses_for_mjr" =>
          \A b \in Bookings :
             IF hist'.mjr # NoId /\ bookings[b].exists
                /\ bookings[b].mjr_id = hist'.mjr
             THEN bookings'[b] = [bookings[b] EXCEPT !.status = hist'.args[1]]
             ELSE bookings'[b] = bookings[b]]_vars

\* A bulk update has given both days of a group a new status.
C21_Witness ==
    /\ hist.op = "update_all_mja_statuses_for_mjr"
    /\ hist.mjr \in Groups
    /\ Cardinality(hist.written) = 2
    /\ \A b \in hist.written :
          /\ bookings[b].mjr_id = hist.mjr
          /\ bookings[b].status = hist.args[1]

\* The last step was a detail step that saved the days of a multi-day group
MultidaySaved ==
    /\ hist.op = "detail"
    /\ hist.saved # {}
    /\ \E b \in hist.saved : Cardinality(Days(GroupOf(b))) > 1

\* C23: after the detail processor has saved the days of a multi-day detail
\* screen of group g, table multiday_headers has a row for g.
C23_MultidayHeaderStored ==
    MultidaySaved =>
       \A b \in hist.saved : bookings[b].mjr_id \in multiday_headers

\* C22: any two stored bookings with the same non-null mjr_id have the same
\* MJR-level fields (client_name is the one the rows carry here).
C22_GroupRowsAgree ==
    \A b, c \in Bookings :
       (/\ bookings[b].exists /\ bookings[c].exists
        /\ bookings[b].mjr_id # NoId
        /\ bookings[b].mjr_id = bookings[c].mjr_id)
          => bookings[b].client_name = bookings[c].client_name

\* --------------------------------------------------------- parser properties
\* C26: for times with hour < 24 and minute < 60 the card parser's and
\* time_utils' duration are the same text: (end - start) modulo 24 hours as
\* HH:MM, which is 00:00 for equal times and rolls over one day when the end
\* is before the start.
C26_DurationsAgree ==
    hist.op = "duration" =>
       LET d == (Combine(hist.args[2]) - Combine(hist.args[1])) % (24 * 60)
       IN /\ hist.ret[1] = hist.ret[2]
          /\ hist.ret[1] = FormatHHMM(d \div 60, d % 60)

\* 23:30 -> 00:15 has given 00:45.
C26_Witness ==
    /\ hist.op = "duration"
    /\ hist.args = <<(<<23, 30>>), (<<0, 15>>)>>
    /\ hist.ret[1] = <<0, 0, 4, 5>>
    /\ hist.ret[2] = <<0, 0, 4, 5>>

\* The day identifiers a descriptor contains, in order
IdsOf(desc) == SelectSeq(desc, LAMBDA f : f \in MjaIds)

\* C24: parse_mja returns no result for a descriptor that contains no day
\* identifier, with or without a status prefix, and for a descriptor that
\* contains one the result's booking_id is that identifier (the first).
C24_IdentifierRequired ==
    hist.op = "parse_mja" =>
       IF IdsOf(hist.args) = <<>>
       THEN hist.ret = NoParse
       ELSE /\ hist.ret.matched
            /\ hist.ret.booking_id = Head(IdsOf(hist.args))

\* A descriptor with a status prefix and no identifier has given no result.
C24_Witness ==
    /\ hist.op = "parse_mja"
    /\ Len(hist.args) = 4
    /\ hist.args[1] = "Cancelled"
    /\ hist.args[2] = "NoMJAIDHere"
    /\ hist.args[3] = "AB1 2CD"
    /\ ~hist.ret.matched

\* The fields after the first identifier, without the first time range
LocationFields(desc) ==
    LET ids == {i \in DOMAIN desc : desc[i] \in MjaIds}
        first == CHOOSE i \in ids : \A j \in ids : i <= j
        after == SubSeq(desc, first + 1, Len(desc))
        dur == FirstOf({i \in DOMAIN after : DurationMatch(after[i]) # <<>>})
    IN [i \in (DOMAIN after) \ {dur} |-> after[i]]

\* C25: in every parse_mja result the remote flag is 1 exactly when postcode
\* is null.  Of the fields after the identifier, the first that is 'Remote'
\* or postcode-shaped decides: 'Remote' gives remote with no postcode, a
\* postcode gives the sanitized postcode and remote 0; with neither remote
\* is inferred as 1.  The language pair is the last field that is neither
\* that one nor the time range, none when no field is left.
C25_RemoteIffNoPostcode ==
    (hist.op = "parse_mja" /\ hist.ret.matched) =>
       LET lf == LocationFields(hist.args)
           locs == {i \in DOMAIN lf :
                      lf[i] \in {"Remote", "REMOTE", "AB1 2CD", "M11AA"}}
           loc == FirstOf(locs)
           left == {i \in DOMAIN lf : i # loc /\ lf[i] # ""}
       IN /\ hist.ret.isRemote = 1 <=> hist.ret.postcode = "None"
          /\ hist.ret.isRemote \in {0, 1}
          /\ locs = {} => hist.ret.isRemote = 1
          /\ (locs # {} /\ lf[loc] \in {"Remote", "REMOTE"})
                => hist.ret.isRemote = 1
          /\ (locs # {} /\ lf[loc] = "AB1 2CD")
                => hist.ret.postcode = "AB1 2CD"
          /\ (locs # {} /\ lf[loc] = "M11AA") => hist.ret.postcode = "M1 1AA"
          /\ hist.ret.language_pair =
                IF left = {} THEN "None"
                ELSE lf[CHOOSE i \in left : \A j \in left : j <= i]

\* A descriptor with neither postcode nor 'Remote' has been parsed: remote
\* is inferred and the language pair is its last field.
C25_Witness ==
    /\ hist.op = "parse_mja"
    /\ hist.args = <<"New Offer", "MJA00000001", "English to Polish">>
    /\ hist.ret.matched
    /\ hist.ret.isRemote = 1
    /\ hist.ret.postcode = "None"
    /\ hist.ret.language_pair = "English to Polish"

\* A call of parse_detail_data on a multi-day stream all of whose
\* day-payment blocks carry their day identifier
MultidayParsed ==
    /\ hist.op = "parse_detail_data"
    /\ hist.args[1]
    /\ hist.args[3] # <<>>
    /\ \A i \in DOMAIN hist.args[3] : hist.args[3][i].mja # NoId

\* C27: for a multi-day stream with N day-payment blocks and overall total
\* T, parse_detail_data returns day_total = T / N and a per-day payment
\* list of exactly N entries.
C27_DayTotalIsAverage ==
    (MultidayParsed /\ hist.args[4] # NoMoney) =>
       /\ Len(hist.ret.multiday_payments) = Len(hist.args[3])
       /\ hist.ret.day_total # NoMoney
       /\ hist.ret.day_total * Len(hist.args[3]) = hist.args[4]

\* C28: for a multi-day stream whose date range starts at a valid date D,
\* the k-th day-payment block (0-based) gets booking_date = D + k days.
C28_DayDatesFollowStart ==
    (/\ MultidayParsed
     /\ hist.args[2] # NoDate
     /\ ParseUkDate(hist.args[2][1]) # NoDate) =>
       \A k \in DOMAIN hist.ret.multiday_payments :
          hist.ret.multiday_payments[k].booking_date
             = AddDays(hist.args[2][1], k - 1)

\* The bookings the list processor has just evaluated a card of with one of
\* the given card statuses
CardsSeen(statuses) ==
    IF hist.op # "list" THEN {}
    ELSE {hist.args[i][1] :
            i \in {j \in DOMAIN hist.args : hist.args[j][2] \in statuses}}

\* The list processor clicks only a card it observed as Normal, and enters
\* SECONDARY only with a click.
ClickOnlyNormal ==
    /\ (hist.op = "list" /\ hist.bid # NoId)
           => hist.bid \in CardsSeen({"Normal"})
    /\ (hist.op = "list" /\ sm.current_state = "SECONDARY")
           => hist.bid # NoId

\* C29: the list processor clicks only a card observed as Normal (LIST ->
\* SECONDARY only for such a card); every Cancelled card it observes is
\* stored as 'cancelled_on_list', every New Offer or Viewed card as
\* 'skipped_offer_viewed', and both are in the session's handled set.
C29_OtherCardsStoredNotClicked ==
    /\ ClickOnlyNormal
    /\ \A b \in CardsSeen({"Cancelled"}) :
          /\ bookings[b].status = "cancelled_on_list"
          /\ b \in lp.session_clicked_mja_ids
    /\ \A b \in CardsSeen({"New Offer", "Viewed"}) :
          /\ bookings[b].status = "skipped_offer_viewed"
          /\ b \in lp.session_clicked_mja_ids

\* A step of the list processor that got as far as evaluating the cards
ListEvaluated ==
    /\ hist'.op = "list"
    /\ hist'.msg \notin {"Failed to ensure on list page",
                         "ListProcessor unhandled error",
                         "No cards on list page initially"}

\* scroll_attempts after the resets of the invocation: 0 on a fresh list
\* view or when a new unprocessed card is on screen
ScrollBase ==
    LET entered == EnterList(lp, run.is_processing_fresh_list_view)
    IN IF ScanScreen(bookings, entered, hist'.args).any_new THEN 0
       ELSE entered.scroll_attempts

ScrollPlusOne ==
    ListEvaluated =>
       IF hist'.bid = NoId THEN lp'.scroll_attempts = ScrollBase + 1
       ELSE lp'.scroll_attempts = 0

EndsExactlyAtMax ==
    ListEvaluated =>
       (hist'.exhausted <=> lp'.scroll_attempts = max_scroll_attempts)

ScrollBounded == lp'.scroll_attempts <= max_scroll_attempts

\* C30: an invocation of the list processor that clicks no card increases
\* scroll_attempts by exactly one, after the reset to 0 that a new
\* unprocessed card causes; the list processor ends the session exactly when
\* scroll_attempts reaches max_scroll_attempts, and scroll_attempts never
\* exceeds it.
C30_ScrollCounting ==
    [][ScrollPlusOne /\ EndsExactlyAtMax /\ ScrollBounded]_vars

\* C31: within one run a booking is selected for a click at most once,
\* unless its click raised a stale-element error: the list processor never
\* clicks a booking whose card was clicked, without a stale element, earlier
\* in the run (hist.clicks), and a stale click takes the booking out of both
\* dedup sets.
C31_ClickedAtMostOnce ==
    [][(hist'.op = "list" /\ hist'.bid # NoId) =>
          /\ hist'.bid \notin hist.clicks
          /\ hist'.bid \notin lp.session_clicked_mja_ids
          /\ IF sm'.current_state = "LIST"
             THEN /\ hist'.bid \notin lp'.session_clicked_mja_ids
                  /\ hist'.bid \notin lp'.processed_ids_this_cycle
             ELSE hist'.bid \in lp'.session_clicked_mja_ids]_vars

\* The list shows the Normal card of a booking clicked earlier in the run,
\* and the list processor does not click it.
C31_Witness ==
    /\ hist.op = "list"
    /\ hist.bid = NoId
    /\ \E b \in hist.clicks : hist.args = <<<<b, "Normal">>>>

\* C32: every run eventually leaves the run loop: once the process is up,
\* the tracker reaches FINISHED or ERROR (or the process is stopped).
C32_RunLeavesLoop ==
    run.up ~> (~run.up \/ sm.current_state \in {"FINISHED", "ERROR"})

\* C33: within one run, once the detail screen of a multi-day group has been
\* saved with all its day rows stored as 'scraped' (hist.saved_groups), the
\* list processor clicks no card whose stored mjr_id is that group.
C33_SavedGroupNotRevisited ==
    [][(hist'.op = "list" /\ hist'.bid # NoId) =>
          bookings[hist'.bid].mjr_id \notin hist.saved_groups]_vars

\* C34: the tracker persists state SECONDARY only after the click on the
\* card has succeeded: a list step whose tracker calls include an
\* update_state to SECONDARY is a step whose click succeeded, the tracker
\* ending the step in SECONDARY.
C34_SecondaryPersistedAfterClick ==
    (/\ hist.op = "list"
     /\ \E i \in DOMAIN hist.log : /\ hist.log[i][2] = "SECONDARY"
                                   /\ hist.log[i][3] = "update_state")
       => sm.current_state = "SECONDARY"

\* C35: a detail step increases the session's scraped counter, by one, only
\* when it has persisted booking rows (hist.saved); a step whose save failed
\* or that saved no row leaves the counter as it was, in memory and in the
\* session row.
C35_ScrapedCountsSavedRows ==
    [][hist'.op = "detail" =>
          LET before == sm.total_bookings_scraped_session
              after == sm'.total_bookings_scraped_session
          IN /\ after \in {before, before + 1}
             /\ after = before + 1 => hist'.saved # {}
             /\ hist'.saved = {} =>
                   sessions'[sm.session_id].total_bookings_scraped
                      = sessions[sm.session_id].total_bookings_scraped]_vars

\* The messages of a failed initial navigation to the list
NavigationFailureMsgs ==
    {"Initial navigation to list page failed", "Initial navigation error"}

\* C36: a single failure gives a single error record.  A NAVIGATING_TO_LIST
\* iteration that fails increases total_errors by exactly one and leaves the
\* navigation-failure message in the session row; a detail step whose
\* processing fails and whose back-navigation fails too (one back() call,
\* which raised) increases total_errors by exactly one.
C36_OneFailureOneError ==
    [][/\ (hist'.op = "navigate" /\ sm'.current_state = "ERROR") =>
            /\ sm'.total_errors_session = sm.total_errors_session + 1
            /\ sessions'[sm.session_id].total_errors
                  = sessions[sm.session_id].total_errors + 1
            /\ sessions'[sm.session_id].error_message
                  \in NavigationFailureMsgs
       /\ (/\ hist'.op = "detail"
           /\ hist'.backs = 1
           /\ hist'.msg \in {DetailErrorMsg("no page source"),
                             DetailErrorMsg("language anchor not found")}) =>
            sm'.total_errors_session = sm.total_errors_session + 1]_vars

\* C37: whenever the tracker's state is SECONDARY its current_booking_id is
\* not null, and whenever it is DETAIL its current_booking_id and its
\* current_mjr_id are not null: in memory and in every session row, after
\* every update_state call of a step and after every start of a process,
\* the start that resumes the session of a crashed process included.
C37_ActiveIdsPresent ==
    /\ sm.current_state = "SECONDARY" => sm.current_booking_id # NoId
    /\ sm.current_state = "DETAIL" =>
          sm.current_booking_id # NoId /\ sm.current_mjr_id # NoId
    /\ \A i \in DOMAIN sessions :
          /\ sessions[i].last_state = "SECONDARY" =>
                sessions[i].current_booking_id # NoId
          /\ sessions[i].last_state = "DETAIL" =>
                /\ sessions[i].current_booking_id # NoId
                /\ sessions[i].current_mjr_id # NoId
    /\ \A k \in DOMAIN hist.log :
          hist.log[k][3] = "update_state" =>
            /\ hist.log[k][2] = "SECONDARY" => hist.log[k][4] # NoId
            /\ hist.log[k][2] = "DETAIL" =>
                  hist.log[k][4] # NoId /\ hist.log[k][5] # NoId

\* A process has resumed the session of a process that crashed after the
\* click of a card, in SECONDARY on the booking of that card
C37_Witness ==
    /\ hist.op = "load"
    /\ hist.resumed
    /\ sm.current_state = "SECONDARY"
    /\ sessions[sm.session_id].last_state = "SECONDARY"
    /\ sm.current_booking_id \in Bookings

\* C38: an update_state call to a state other than ERROR leaves total_errors
\* (in memory and in the session row) and the stored error_message as they
\* were, whatever error_message argument it was given; and an identifier the
\* call was not given keeps its value in memory and in the session row.
C38_UpdateStateFrame ==
    [][hist'.op = "update_state" =>
        LET r == sessions'[sm.session_id]
            r0 == sessions[sm.session_id]
            ids == hist'.args
        IN /\ sm'.current_state # "ERROR" =>
                /\ sm'.total_errors_session = sm.total_errors_session
                /\ r.total_errors = r0.total_errors
                /\ r.error_message = r0.error_message
           /\ ids[1] = Ellipsis =>
                /\ sm'.current_booking_id = sm.current_booking_id
                /\ r.current_booking_id = r0.current_booking_id
           /\ ids[2] = Ellipsis =>
                /\ sm'.current_mjr_id = sm.current_mjr_id
                /\ r.current_mjr_id = r0.current_mjr_id
           /\ ids[3] = Ellipsis =>
                /\ sm'.last_processed_booking_id = sm.last_processed_booking_id
                /\ r.last_processed_booking_id
                      = r0.last_processed_booking_id]_vars

\* After a transition into ERROR that stored no message, a call to LIST that
\* was given no identifier and a message has left the stored message empty
\* and has kept the error count and the identifiers.
C38_Witness ==
    /\ hist.op = "update_state"
    /\ hist.args = <<Ellipsis, Ellipsis, Ellipsis>>
    /\ hist.msg = "m1"
    /\ sm.current_state = "LIST"
    /\ sm.current_booking_id = 1
    /\ sessions[sm.session_id].current_booking_id = 1
    /\ sessions[sm.session_id].error_message = NoMsg
    /\ sessions[sm.session_id].total_errors = 1

\* The columns of a stored row that come from the secondary and detail
\* screens
DetailColumns ==
    {"creation_id", "processing_id", "client_name", "appointment_count_hint",
     "type_hint", "scrape_attempt"}

\* C39: insert_booking_base on a booking that is already stored leaves every
\* column that comes from the secondary and detail screens as it was, keeps
\* the stored mjr_id when the card carries none, and touches no other row.
C39_InsertKeepsDetailColumns ==
    [][(hist'.op = "insert_booking_base" /\ bookings[hist'.bid].exists) =>
          LET b == hist'.bid IN
          /\ bookings'[b].exists
          /\ \A f \in DetailColumns : bookings'[b][f] = bookings[b][f]
          /\ CardMjrId(hist'.card) = NoId =>
                bookings'[b].mjr_id = bookings[b].mjr_id
          /\ \A c \in Bookings \ {b} : bookings'[c] = bookings[c]]_vars

\* A Cancelled card has been merged into a row that holds a group identifier
\* and a client name
C39_Witness ==
    /\ hist.op = "insert_booking_base"
    /\ hist.card = "Cancelled"
    /\ bookings[hist.bid].status = "cancelled_on_list"
    /\ bookings[hist.bid].mjr_id # NoId
    /\ bookings[hist.bid].client_name # NoId

====
